---- MODULE Spec2Model ----
(***************************************************************************)
(* The enrichment consumer of support-intel (services/enricher/app.py):    *)
(* poll -> decode/validate -> duplicate check -> retrieve + LLM ->         *)
(* normalise -> store transaction -> publish -> offset commit, with the    *)
(* two except arms (rollback, dlq, _mark_failed, offset commit).           *)
(*                                                                         *)
(* One consumer instance per input partition; every instance has its own   *)
(* store connection (autocommit off), all share one PostgreSQL store       *)
(* (READ COMMITTED, row locks held until commit or rollback).              *)
(***************************************************************************)
EXTENDS Integers, Sequences, FiniteSets, TLC

\* ---------------------------------------------------------------- bounds
\* Messages on the input topic, over all its partitions.
MaxLog == 2
\* Injected failures over the whole run: forced kills of a consumer process,
\* exceptions raised by the store or the bus, produces that are not delivered,
\* polls that return a Kafka-level error.
MaxFaults == 1

\* One consumer instance per partition; instance c reads partition c.
Consumers == {"c1", "c2"}
EventIds == {"e1", "e2"}
TicketIds == {"t1"}
NoId == "none"
Null == "null"

\* ------------------------------------------------------------ input bytes
\* The message values the input topic can hold, by what decoding and
\* validating them yields.
Payloads ==
    {[kind |-> k, event_id |-> NoId, ticket_id |-> NoId] :
        k \in {"empty", "not_json", "no_ticket_id"}}
    \cup {[kind |-> "schema_invalid", event_id |-> NoId, ticket_id |-> t] :
        t \in TicketIds}
    \cup {[kind |-> "valid", event_id |-> e, ticket_id |-> t] :
        e \in EventIds, t \in TicketIds}

\* What the retrieval + LLM + normalisation stage can end with.
EnrichOutcomes == {"ok", "no_summary", "bad_json", "transport_error"}

NoRow == [last_event_id |-> NoId, status |-> "absent", summary |-> Null]
NoWrite == [last_event_id |-> NoId, status |-> "nowrite", summary |-> Null]
EmptyTx == [rows |-> [t \in TicketIds |-> NoWrite], events |-> {}]

VARIABLES
    log,            \* input topic: partition -> sequence of payloads
    committed,      \* consumer group's committed offset per partition
    position,       \* each consumer's fetch position (next offset to poll)
    pc,             \* each consumer's place in main()
    offset,         \* offset of the message a consumer is handling
    err,            \* exception class the consumer is handling
    enriched,       \* the normalised LLM output the consumer holds
    tx,             \* each connection's uncommitted writes
    tickets,        \* enriched_tickets, committed state
    ledger,         \* processed_events, committed state
    outTopic,       \* records delivered to TOPIC_OUT
    dlqTopic,       \* records delivered to TOPIC_DLQ
    published,      \* messages for which produce(TOPIC_OUT)+flush returned
    dlqd,           \* messages for which dlq() returned
    acked,          \* offset commits that succeeded, with the arc they ended
    upsertCommits,  \* per event_id: committed transactions that upserted it
    late,           \* the handled message was polled after its event committed
    members,        \* the consumer instances of the group (one partition each)
    faults,         \* failures injected so far
    kafkaErrors,    \* polls that returned a message carrying a Kafka error
    norm,           \* one LLM result on its way through normalise/store/publish
    call            \* one call of a helper of the pipeline, followed on its own

vars == <<log, committed, position, pc, offset, err, enriched, tx, tickets,
          ledger, outTopic, dlqTopic, published, dlqd, acked, upsertCommits,
          late, members, faults, kafkaErrors, norm, call>>

consumerVars == <<position, pc, offset, err, enriched, late>>
storeVars == <<tx, tickets, ledger, upsertCommits>>
busVars == <<outTopic, dlqTopic, published, dlqd, acked, committed>>
otherVars == <<members, kafkaErrors, norm, call>>

\* ------------------------------------------------------------- helpers
Msg(c) == log[c][offset[c]]
MsgId(c) == <<c, offset[c]>>

\* main, lines 303-308: the exception decoding and validating raise.
DecodeError(m) ==
    CASE m.kind = "empty" -> "ValueError"
      [] m.kind = "not_json" -> "JSONDecodeError"
      [] m.kind \in {"no_ticket_id", "schema_invalid"} -> "ValidationError"
      [] OTHER -> "none"

\* The first except arm's classes; everything else is "unexpected".
Classified(cls) == cls \in {"JSONDecodeError", "ValidationError", "ValueError"}

ErrorText(cls) == IF Classified(cls) THEN <<"", cls>> ELSE <<"unexpected: ", cls>>

\* The record dlq() builds; its ts is the time of the call, which no two
\* records of the topic share.
DlqRecord(c) ==
    [partition |-> c, offset |-> offset[c], error |-> ErrorText(err[c]),
     payload |-> IF Msg(c).kind = "empty" THEN Null ELSE Msg(c).kind,
     ts |-> Cardinality(dlqTopic)]

\* Mutant of FailedTicketId: a payload that names no ticket falls back to a
\* ticket of the table instead of leaving _mark_failed.
FailedTicketId_Fallback(m) ==
    IF m.kind \in {"valid", "schema_invalid"}
    THEN m.ticket_id
    ELSE CHOOSE t \in TicketIds : TRUE

\* _mark_failed: the ticket_id it extracts from the raw payload, if any.
FailedTicketId(m) ==
    IF m.kind \in {"valid", "schema_invalid"} THEN m.ticket_id ELSE NoId

\* A row of enriched_tickets another connection has written and not yet
\* committed: its row lock makes this connection's write wait.
RowLockedByOther(c, t) ==
    \E d \in Consumers \ {c} : tx[d].rows[t] # NoWrite

EventLockedByOther(c, e) ==
    \E d \in Consumers \ {c} : e \in tx[d].events

CanFault == faults < MaxFaults

\* The exception is raised inside the try block: control goes to an except arm.
Raise(c, cls) ==
    /\ pc' = [pc EXCEPT ![c] = "h_rollback"]
    /\ err' = [err EXCEPT ![c] = cls]

Fault(c, cls) ==
    /\ CanFault
    /\ faults' = faults + 1
    /\ Raise(c, cls)

\* The exception is raised inside an except arm: it leaves main().
Terminate(c) ==
    /\ CanFault
    /\ faults' = faults + 1
    /\ pc' = [pc EXCEPT ![c] = "terminated"]

\* The loop is back at consumer.poll: nothing of the handled message is used
\* again (every local is assigned anew before it is read).
ToIdle(c) ==
    /\ pc' = [pc EXCEPT ![c] = "idle"]
    /\ offset' = [offset EXCEPT ![c] = 0]
    /\ err' = [err EXCEPT ![c] = "none"]
    /\ enriched' = [enriched EXCEPT ![c] = "none"]
    /\ late' = [late EXCEPT ![c] = FALSE]

\* ============================================================ normalisers
\* JSON values of an LLM result.  A float is a finite number (v, in tenths),
\* NaN or an infinity; a text is its words (lower-cased vocabulary) with two
\* marks: it has surrounding white space, it has upper-case letters.
Fin(v) == [k |-> "fin", v |-> v]
NaN == [k |-> "nan", v |-> 0]
PosInf == [k |-> "inf", v |-> 0]
NoFloat == [k |-> "none", v |-> 0]

Txt(words) == [pad |-> FALSE, upper |-> FALSE, words |-> words]
Raw(words) == [pad |-> TRUE, upper |-> TRUE, words |-> words]

JNum(f) == [type |-> "number", f |-> f, text |-> Txt(<<>>)]
JBool(b) == [type |-> "bool", f |-> Fin(IF b THEN 10 ELSE 0), text |-> Txt(<<>>)]
JStr(t) == [type |-> "string", f |-> NoFloat, text |-> t]
JNull == [type |-> "null", f |-> NoFloat, text |-> Txt(<<>>)]
JList == [type |-> "list", f |-> NoFloat, text |-> Txt(<<>>)]
\* dict.get(key) of a key the object does not hold.
JMissing == [type |-> "missing", f |-> NoFloat, text |-> Txt(<<>>)]

\* Python's truth value of a JSON value (`if not value`).
Truthy(value) ==
    CASE value.type \in {"null", "missing"} -> FALSE
      [] value.type = "string" -> value.text.words # <<>> \/ value.text.pad
      [] value.type \in {"number", "bool"} -> value.f # Fin(0)
      [] OTHER -> TRUE

\* value.strip().lower()
StripLower(t) == [pad |-> FALSE, upper |-> FALSE, words |-> t.words]

\* The keywords of _normalize_category that are substrings of a word.
Substrings(w) ==
    {w} \cup
    (CASE w = "security_incident" -> {"security", "incident"}
       [] w = "data_refresh" -> {"data", "refresh"}
       [] w = "account_access" -> {"account", "access"}
       [] w = "feature_request" -> {"feature"}
       [] w = "exports" -> {"export"}
       [] w = "notifications" -> {"notification"}
       [] w = "refunds" -> {"refund"}
       [] OTHER -> {})

\* `kw in v` for a one-word keyword, and for the two-word keyword "a b".
Has(v, kw) == v.upper = FALSE /\ \E i \in 1..Len(v.words) : kw \in Substrings(v.words[i])
HasPhrase(v, a, b) ==
    /\ v.upper = FALSE
    /\ \E i \in 1..(Len(v.words) - 1) : v.words[i] = a /\ v.words[i + 1] = b

\* `v in ENUM` for a list of one-word strings.
IsMember(v, enum) ==
    /\ v.pad = FALSE
    /\ v.upper = FALSE
    /\ Len(v.words) = 1
    /\ v.words[1] \in enum

CATEGORY_ENUM ==
    {"account_access", "billing", "security_incident", "data_refresh", "exports",
     "feature_request", "integration", "notifications", "general"}

SENTIMENT_ENUM == {"positive", "neutral", "negative"}

\* value.strip() / text.split() of a value that is not a string raises
\* AttributeError.
NotAString(value) == Truthy(value) /\ value.type # "string"

\* Mutant of KeywordCategory: the security row is consulted before the
\* billing row.
KeywordCategory_SecurityFirst(v) ==
    IF Has(v, "security") \/ Has(v, "breach") \/ Has(v, "incident")
    THEN "security_incident"
    ELSE IF Has(v, "billing") \/ Has(v, "invoice") \/ Has(v, "refund") \/ Has(v, "charge")
    THEN "billing"
    ELSE IF Has(v, "refresh") \/ (Has(v, "data") /\ Has(v, "refresh"))
    THEN "data_refresh"
    ELSE IF Has(v, "export")
    THEN "exports"
    ELSE IF Has(v, "feature") \/ Has(v, "roadmap")
    THEN "feature_request"
    ELSE IF Has(v, "oauth") \/ HasPhrase(v, "api", "key") \/ Has(v, "integration")
    THEN "integration"
    ELSE IF Has(v, "alert") \/ Has(v, "notification") \/ Has(v, "slack")
    THEN "notifications"
    ELSE IF Has(v, "login") \/ Has(v, "password") \/ Has(v, "account") \/ Has(v, "access")
    THEN "account_access"
    ELSE "general"

\* _normalize_category, lines 249-265: the keyword chain on the stripped,
\* lower-cased text.
KeywordCategory(v) ==
    IF Has(v, "billing") \/ Has(v, "invoice") \/ Has(v, "refund") \/ Has(v, "charge")
    THEN "billing"
    ELSE IF Has(v, "security") \/ Has(v, "breach") \/ Has(v, "incident")
    THEN "security_incident"
    ELSE IF Has(v, "refresh") \/ (Has(v, "data") /\ Has(v, "refresh"))
    THEN "data_refresh"
    ELSE IF Has(v, "export")
    THEN "exports"
    ELSE IF Has(v, "feature") \/ Has(v, "roadmap")
    THEN "feature_request"
    ELSE IF Has(v, "oauth") \/ HasPhrase(v, "api", "key") \/ Has(v, "integration")
    THEN "integration"
    ELSE IF Has(v, "alert") \/ Has(v, "notification") \/ Has(v, "slack")
    THEN "notifications"
    ELSE IF Has(v, "login") \/ Has(v, "password") \/ Has(v, "account") \/ Has(v, "access")
    THEN "account_access"
    ELSE "general"

\* Mutant of NormalizeCategory: a text that is no enum member is returned
\* stripped and lower-cased, the keyword table is not consulted.
NormalizeCategory_NoKeywords(value) ==
    IF ~Truthy(value)
    THEN "general"
    ELSE LET v == StripLower(value.text) IN
         IF v.words = <<>> THEN "" ELSE v.words[1]

\* _normalize_category(value), for a value that is a string or falsy.
NormalizeCategory(value) ==
    IF ~Truthy(value)
    THEN "general"
    ELSE LET v == StripLower(value.text) IN
         IF IsMember(v, CATEGORY_ENUM) THEN v.words[1] ELSE KeywordCategory(v)

\* _normalize_sentiment(value), for a value that is a string or falsy.
NormalizeSentiment(value) ==
    IF ~Truthy(value)
    THEN "neutral"
    ELSE LET v == StripLower(value.text) IN
         IF IsMember(v, SENTIMENT_ENUM) THEN v.words[1]
         ELSE IF IsMember(v, {"frustrated", "angry", "upset", "negative"}) THEN "negative"
         ELSE IF IsMember(v, {"happy", "satisfied", "positive"}) THEN "positive"
         ELSE "neutral"

\* float(word) for the numeric words of the vocabulary; NoFloat: ValueError.
FloatOfWord(w) ==
    CASE w = "0.5" -> Fin(5)
      [] w = "1.5" -> Fin(15)
      [] w = "-0.5" -> Fin(0 - 5)
      [] w = "nan" -> NaN
      [] w = "inf" -> PosInf
      [] OTHER -> NoFloat

\* float(value); NoFloat stands for the exception it raises.  float() of a
\* string ignores surrounding white space and the case of "nan" and "inf".
PyFloat(value) ==
    CASE value.type \in {"number", "bool"} -> value.f
      [] value.type = "string" /\ Len(value.text.words) = 1 ->
            FloatOfWord(value.text.words[1])
      [] OTHER -> NoFloat

\* a < b and a > b on floats, b finite: every comparison with NaN is false.
FloatLess(a, b) == a.k = "fin" /\ a.v < b.v
FloatGreater(a, b) == a.k = "inf" \/ (a.k = "fin" /\ a.v > b.v)

\* _clamp_risk(value)
ClampRisk(value) ==
    LET risk == PyFloat(value) IN
    IF risk = NoFloat THEN Fin(0)
    ELSE IF FloatLess(risk, Fin(0)) THEN Fin(0)
    ELSE IF FloatGreater(risk, Fin(10)) THEN Fin(10)
    ELSE risk

\* _trim_reply's default max_words.
max_words == 140

\* _trim_reply(text), for a text that is a string or falsy.
TrimReply(value) ==
    IF ~Truthy(value)
    THEN JStr(Txt(<<>>))
    ELSE IF Len(value.text.words) <= max_words
    THEN value
    ELSE JStr([pad |-> FALSE, upper |-> value.text.upper,
               words |-> Append(SubSeq(value.text.words, 1, max_words), "...")])

\* ------------------------------------------- one LLM result, lines 324-378
\* The values call_claude's JSON object can hold under each key.
ShortReply == JStr(Txt(<<"sorry", "please", "retry">>))
LongReply == JStr(Txt([i \in 1..(max_words + 1) |-> "word"]))

SummaryValues == {JStr(Txt(<<"payment", "issue">>)), JNull, JMissing}
CategoryValues ==
    {JMissing, JNull, JStr(Txt(<<>>)), JStr(Txt(<<"billing">>)),
     JStr(Raw(<<"billing">>)), JStr(Raw(<<"billing", "&", "subscriptions">>)),
     JStr(Txt(<<"data", "refresh">>)), JStr(Txt(<<"data">>)),
     JStr(Txt(<<"refund", "security">>)), JStr(Txt(<<"api", "key">>)),
     JStr(Txt(<<"password", "export">>)), JStr(Txt(<<"other">>)),
     JNum(Fin(5))}
SentimentValues ==
    {JMissing, JStr(Txt(<<>>)), JStr(Txt(<<"positive">>)),
     JStr(Raw(<<"frustrated">>)), JStr(Txt(<<"happy">>)),
     JStr(Txt(<<"very", "angry">>)), JList}
RiskValues ==
    {JNum(Fin(0 - 5)), JNum(Fin(0)), JNum(Fin(5)), JNum(Fin(10)), JNum(Fin(15)),
     JNum(NaN), JNum(PosInf), JBool(TRUE),
     JStr(Txt(<<"0.5">>)), JStr(Raw(<<"1.5">>)), JStr(Txt(<<"nan">>)),
     JStr(Txt(<<"high">>)), JNull, JMissing}
ReplyValues == {ShortReply, LongReply, JMissing}
\* An envelope key the object holds besides the five enrichment keys.
ExtraKeys == {"none", "schema_version", "event_id"}

LlmObjects ==
    [summary : SummaryValues, category : CategoryValues,
     sentiment : SentimentValues, risk : RiskValues,
     suggested_reply : ReplyValues, extra : ExtraKeys]

ENRICHED_EVENT_SCHEMA_VERSION == 1

NoEnriched ==
    [summary |-> JMissing, category |-> "", sentiment |-> "", risk |-> NoFloat,
     suggested_reply |-> JMissing, extra |-> "none"]
NoNormRow ==
    [status |-> "absent", summary |-> JMissing, category |-> "",
     sentiment |-> "", risk |-> NoFloat, suggested_reply |-> JMissing]
NoEvent ==
    [schema_version |-> 0, event_id |-> NoId, ticket_id |-> NoId,
     summary |-> JMissing, category |-> "", sentiment |-> "", risk |-> NoFloat,
     suggested_reply |-> JMissing]

\* No LLM result is followed on its own: the consumer specifications leave
\* norm alone.
NormIdle == [stage |-> "idle"]

\* No helper call is followed on its own.
CallIdle == [fn |-> "none"]

\* enriched.get("risk", 0.0)
GetOr(value, default) == IF value.type = "missing" THEN default ELSE value

\* Lines 327-330: the four keys main overwrites; every other key stays.
NormalizeEnriched(obj) ==
    [summary |-> obj.summary,
     category |-> NormalizeCategory(obj.category),
     sentiment |-> NormalizeSentiment(obj.sentiment),
     risk |-> ClampRisk(GetOr(obj.risk, JNum(Fin(0)))),
     suggested_reply |-> TrimReply(obj.suggested_reply),
     extra |-> obj.extra]

\* Lines 334-365: the row the upsert writes.
EnrichedRow(e) ==
    [status |-> "enriched", summary |-> e.summary, category |-> e.category,
     sentiment |-> e.sentiment, risk |-> e.risk,
     suggested_reply |-> e.suggested_reply]

\* Lines 369-375: the envelope keys, then **enriched, whose keys win.
BuildOut(e) ==
    [schema_version |-> IF e.extra = "schema_version"
                        THEN ENRICHED_EVENT_SCHEMA_VERSION + 1
                        ELSE ENRICHED_EVENT_SCHEMA_VERSION,
     event_id |-> IF e.extra = "event_id" THEN "llm-event-id" ELSE "e1",
     ticket_id |-> "t1",
     summary |-> e.summary, category |-> e.category,
     sentiment |-> e.sentiment, risk |-> e.risk,
     suggested_reply |-> e.suggested_reply]

\* validate(out, ENRICHED_EVENT_SCHEMA): minimum and maximum reject a number
\* that compares below or above the limit.
ValidEnrichedEvent(ev) ==
    /\ ev.schema_version = ENRICHED_EVENT_SCHEMA_VERSION
    /\ ev.event_id # NoId
    /\ ev.ticket_id # NoId
    /\ ev.summary.type = "string"
    /\ ev.category \in CATEGORY_ENUM
    /\ ev.sentiment \in SENTIMENT_ENUM
    /\ ~FloatLess(ev.risk, Fin(0))
    /\ ~FloatGreater(ev.risk, Fin(10))
    /\ ev.suggested_reply.type = "string"

\* ---------------------------------------------------------------- Init
InitStore ==
    /\ log = [c \in Consumers |-> <<>>]
    /\ committed = [c \in Consumers |-> 0]
    /\ position = [c \in Consumers |-> 1]
    /\ pc = [c \in Consumers |-> "idle"]
    /\ offset = [c \in Consumers |-> 0]
    /\ err = [c \in Consumers |-> "none"]
    /\ enriched = [c \in Consumers |-> "none"]
    /\ tx = [c \in Consumers |-> EmptyTx]
    /\ tickets = [t \in TicketIds |-> NoRow]
    /\ ledger = {}
    /\ outTopic = {}
    /\ dlqTopic = {}
    /\ published = {}
    /\ dlqd = {}
    /\ acked = {}
    /\ upsertCommits = [e \in EventIds |-> 0]
    /\ late = [c \in Consumers |-> FALSE]
    /\ kafkaErrors = 0

\* One consumer instance, one partition.
Init ==
    /\ members = {"c1"}
    /\ faults = 0
    /\ norm = NormIdle
    /\ call = CallIdle
    /\ InitStore

\* Two instances joined to the same group, one partition each.
InitGroup ==
    /\ members = Consumers
    /\ faults = 0
    /\ norm = NormIdle
    /\ call = CallIdle
    /\ InitStore

\* --------------------------------------------------------------- actions
\* A producer appends a message to partition p of TOPIC_IN.
LogSize == Len(log["c1"]) + Len(log["c2"])

Produce(p, m) ==
    /\ p \in members
    /\ LogSize < MaxLog
    /\ log' = [log EXCEPT ![p] = Append(@, m)]
    /\ UNCHANGED <<consumerVars, storeVars, busVars, otherVars, faults>>

\* consumer.poll returns the next message; main decodes and validates it.
Poll(c) ==
    /\ pc[c] = "idle"
    /\ position[c] <= Len(log[c])
    /\ LET m == log[c][position[c]] IN
        /\ offset' = [offset EXCEPT ![c] = position[c]]
        /\ position' = [position EXCEPT ![c] = @ + 1]
        /\ late' = [late EXCEPT ![c] = m.kind = "valid" /\ m.event_id \in ledger]
        /\ enriched' = [enriched EXCEPT ![c] = "none"]
        /\ IF DecodeError(m) = "none"
           THEN /\ pc' = [pc EXCEPT ![c] = "check"]
                /\ err' = [err EXCEPT ![c] = "none"]
           ELSE Raise(c, DecodeError(m))
    /\ UNCHANGED <<log, storeVars, busVars, otherVars, faults>>

\* Mutant of PollKafkaError: the message carrying the error is sent to the
\* DLQ like a failed ticket event.
PollKafkaError_Dlq(c) ==
    /\ c \in members
    /\ pc[c] = "idle"
    /\ CanFault
    /\ faults' = faults + 1
    /\ kafkaErrors' = kafkaErrors + 1
    /\ dlqTopic' = dlqTopic \cup
            {[partition |-> c, offset |-> position[c],
              error |-> <<"", "KafkaError">>, payload |-> Null,
              ts |-> Cardinality(dlqTopic)]}
    /\ UNCHANGED <<log, consumerVars, storeVars, outTopic, published, dlqd,
                   acked, committed, members, norm, call>>

\* consumer.poll returns a message carrying a Kafka-level error: main prints
\* it and continues with the next poll.
PollKafkaError(c) ==
    /\ c \in members
    /\ pc[c] = "idle"
    /\ CanFault
    /\ faults' = faults + 1
    /\ kafkaErrors' = kafkaErrors + 1
    /\ UNCHANGED <<log, consumerVars, storeVars, busVars, members, norm, call>>

\* already_processed(conn, event_id) and the branch on it.
CheckDuplicate(c) ==
    /\ pc[c] = "check"
    /\ \/ /\ pc' = [pc EXCEPT ![c] =
                IF Msg(c).event_id \in ledger THEN "dup_commit" ELSE "enrich"]
          /\ UNCHANGED <<err, faults>>
       \/ Fault(c, "Exception")
    /\ UNCHANGED <<log, position, offset, enriched, late, storeVars, busVars, otherVars>>

\* consumer.commit(message=msg, asynchronous=False), with the arc it ends.
CommitOffset(c, via) ==
    /\ committed' = [committed EXCEPT ![c] = offset[c]]
    /\ acked' = acked \cup {[m |-> MsgId(c), via |-> via]}

\* The duplicate arm: commit the offset and continue.
DupCommit(c) ==
    /\ pc[c] = "dup_commit"
    /\ \/ /\ CommitOffset(c, "dup")
          /\ ToIdle(c)
          /\ UNCHANGED faults
       \/ /\ Fault(c, "Exception")
          /\ UNCHANGED <<committed, acked, offset, enriched, late>>
    /\ UNCHANGED <<log, position, storeVars, outTopic, dlqTopic, published,
                   dlqd, otherVars>>

\* embed_text, search_similar_chunks, rerank_chunks, call_claude and the
\* normalisation of its result.
Enrich(c) ==
    /\ pc[c] = "enrich"
    /\ \E o \in EnrichOutcomes :
        CASE o = "ok" ->
                /\ enriched' = [enriched EXCEPT ![c] = "summary"]
                /\ pc' = [pc EXCEPT ![c] = "upsert"]
                /\ UNCHANGED err
          [] o = "no_summary" ->
                /\ enriched' = [enriched EXCEPT ![c] = Null]
                /\ pc' = [pc EXCEPT ![c] = "upsert"]
                /\ UNCHANGED err
          [] o = "bad_json" ->
                /\ Raise(c, "JSONDecodeError")
                /\ UNCHANGED enriched
          [] OTHER ->
                /\ Raise(c, "Exception")
                /\ UNCHANGED enriched
    /\ UNCHANGED <<log, position, offset, late, storeVars, busVars, otherVars, faults>>

\* The enrichment transaction's changes, as conn.commit() makes them visible.
CommitWrites(c, w) ==
    /\ tickets' = [t \in TicketIds |->
            IF w.rows[t] # NoWrite THEN w.rows[t] ELSE tickets[t]]
    /\ ledger' = ledger \cup w.events
    /\ upsertCommits' = [e \in EventIds |->
            upsertCommits[e] + Cardinality({t \in TicketIds :
                w.rows[t].status = "enriched" /\ w.rows[t].last_event_id = e})]
    /\ tx' = [tx EXCEPT ![c] = EmptyTx]

\* conn.rollback(): the connection's uncommitted writes are dropped.
ConnRollback(c) ==
    /\ tx' = [tx EXCEPT ![c] = EmptyTx]
    /\ UNCHANGED <<tickets, ledger, upsertCommits>>

\* The row a statement of connection c sees: the connection's own write, or
\* the committed row.
VisibleRow(c, t) == IF tx[c].rows[t] # NoWrite THEN tx[c].rows[t] ELSE tickets[t]

\* Mutant of Upsert: ON CONFLICT (ticket_id) DO NOTHING; a ticket that has a
\* row keeps it.
Upsert_DoNothing(c) ==
    /\ pc[c] = "upsert"
    /\ \/ /\ ~RowLockedByOther(c, Msg(c).ticket_id)
          /\ tx' = IF VisibleRow(c, Msg(c).ticket_id) # NoRow
                   THEN tx
                   ELSE [tx EXCEPT ![c].rows[Msg(c).ticket_id] =
                            [last_event_id |-> Msg(c).event_id,
                             status |-> "enriched", summary |-> enriched[c]]]
          /\ pc' = [pc EXCEPT ![c] = "mark_processed"]
          /\ UNCHANGED <<err, faults>>
       \/ /\ Fault(c, "Exception")
          /\ UNCHANGED tx
    /\ UNCHANGED <<log, position, offset, enriched, late, tickets, ledger,
                   upsertCommits, busVars, otherVars>>

\* Mutant of Upsert: DO UPDATE SET leaves out status='enriched'; a ticket
\* that has a row keeps its status.
Upsert_KeepStatus(c) ==
    /\ pc[c] = "upsert"
    /\ \/ /\ ~RowLockedByOther(c, Msg(c).ticket_id)
          /\ tx' = [tx EXCEPT ![c].rows[Msg(c).ticket_id] =
                [last_event_id |-> Msg(c).event_id,
                 status |-> IF VisibleRow(c, Msg(c).ticket_id) # NoRow
                            THEN VisibleRow(c, Msg(c).ticket_id).status
                            ELSE "enriched",
                 summary |-> enriched[c]]]
          /\ pc' = [pc EXCEPT ![c] = "mark_processed"]
          /\ UNCHANGED <<err, faults>>
       \/ /\ Fault(c, "Exception")
          /\ UNCHANGED tx
    /\ UNCHANGED <<log, position, offset, enriched, late, tickets, ledger,
                   upsertCommits, busVars, otherVars>>

\* INSERT INTO enriched_tickets ... ON CONFLICT (ticket_id) DO UPDATE.
Upsert(c) ==
    /\ pc[c] = "upsert"
    /\ \/ /\ ~RowLockedByOther(c, Msg(c).ticket_id)
          /\ tx' = [tx EXCEPT ![c].rows[Msg(c).ticket_id] =
                [last_event_id |-> Msg(c).event_id, status |-> "enriched",
                 summary |-> enriched[c]]]
          /\ pc' = [pc EXCEPT ![c] = "mark_processed"]
          /\ UNCHANGED <<err, faults>>
       \/ /\ Fault(c, "Exception")
          /\ UNCHANGED tx
    /\ UNCHANGED <<log, position, offset, enriched, late, tickets, ledger,
                   upsertCommits, busVars, otherVars>>

\* Mutant of MarkProcessed: the ledger insert runs on a connection of its own
\* in autocommit mode, outside the enrichment transaction.
MarkProcessed_Autocommit(c) ==
    /\ pc[c] = "mark_processed"
    /\ \/ /\ ~EventLockedByOther(c, Msg(c).event_id)
          /\ ledger' = ledger \cup {Msg(c).event_id}
          /\ pc' = [pc EXCEPT ![c] = "commit"]
          /\ UNCHANGED <<err, faults>>
       \/ /\ Fault(c, "Exception")
          /\ UNCHANGED ledger
    /\ UNCHANGED <<log, position, offset, enriched, late, tx, tickets,
                   upsertCommits, busVars, otherVars>>

\* mark_processed: INSERT INTO processed_events ... ON CONFLICT DO NOTHING.
MarkProcessed(c) ==
    /\ pc[c] = "mark_processed"
    /\ \/ /\ ~EventLockedByOther(c, Msg(c).event_id)
          /\ tx' = [tx EXCEPT ![c].events =
                IF Msg(c).event_id \in ledger THEN @ ELSE @ \cup {Msg(c).event_id}]
          /\ pc' = [pc EXCEPT ![c] = "commit"]
          /\ UNCHANGED <<err, faults>>
       \/ /\ Fault(c, "Exception")
          /\ UNCHANGED tx
    /\ UNCHANGED <<log, position, offset, enriched, late, tickets, ledger,
                   upsertCommits, busVars, otherVars>>

\* Mutant of TxCommit: the conn.commit() call is missing; the writes stay
\* uncommitted while main goes on to publish.
TxCommit_Missing(c) ==
    /\ pc[c] = "commit"
    /\ pc' = [pc EXCEPT ![c] = "publish"]
    /\ UNCHANGED <<log, position, offset, err, enriched, late, storeVars,
                   busVars, otherVars, faults>>

\* conn.commit() of the enrichment transaction.
TxCommit(c) ==
    /\ pc[c] = "commit"
    /\ \/ /\ CommitWrites(c, tx[c])
          /\ pc' = [pc EXCEPT ![c] = "publish"]
          /\ UNCHANGED <<err, faults>>
       \/ /\ Fault(c, "Exception")
          /\ UNCHANGED storeVars
    /\ UNCHANGED <<log, position, offset, enriched, late, busVars, otherVars>>

OutEvent(c) ==
    [event_id |-> Msg(c).event_id, ticket_id |-> Msg(c).ticket_id,
     summary |-> enriched[c]]

\* validate(out, ENRICHED_EVENT_SCHEMA): summary must be a string.
OutEventValid(ev) == ev.summary # Null

\* Build and validate the EnrichedEvent, produce it and flush.
Publish(c) ==
    /\ pc[c] = "publish"
    /\ \/ /\ ~OutEventValid(OutEvent(c))
          /\ Raise(c, "ValidationError")
          /\ UNCHANGED <<outTopic, published, faults>>
       \/ /\ OutEventValid(OutEvent(c))
          /\ outTopic' = outTopic \cup {OutEvent(c)}
          /\ published' = published \cup {MsgId(c)}
          /\ pc' = [pc EXCEPT ![c] = "ack"]
          /\ UNCHANGED <<err, faults>>
       \/ /\ OutEventValid(OutEvent(c))
          /\ CanFault
          /\ faults' = faults + 1
          /\ published' = published \cup {MsgId(c)}
          /\ pc' = [pc EXCEPT ![c] = "ack"]
          /\ UNCHANGED <<err, outTopic>>
       \/ /\ OutEventValid(OutEvent(c))
          /\ Fault(c, "Exception")
          /\ UNCHANGED <<outTopic, published>>
    /\ UNCHANGED <<log, position, offset, enriched, late, storeVars,
                   dlqTopic, dlqd, acked, committed, otherVars>>

\* The offset commit that ends the success arc.
Ack(c) ==
    /\ pc[c] = "ack"
    /\ \/ /\ CommitOffset(c, "ok")
          /\ ToIdle(c)
          /\ UNCHANGED faults
       \/ /\ Fault(c, "Exception")
          /\ UNCHANGED <<committed, acked, offset, enriched, late>>
    /\ UNCHANGED <<log, position, storeVars, outTopic, dlqTopic, published,
                   dlqd, otherVars>>

\* Both except arms start with conn.rollback().
HandlerRollback(c) ==
    /\ pc[c] = "h_rollback"
    /\ \/ /\ ConnRollback(c)
          /\ pc' = [pc EXCEPT ![c] = "h_dlq"]
          /\ UNCHANGED faults
       \/ /\ Terminate(c)
          /\ UNCHANGED storeVars
    /\ UNCHANGED <<log, position, offset, err, enriched, late, busVars, otherVars>>

\* Mutant of HandlerDlq: an exception of producer.produce is swallowed inside
\* dlq(), so the except arm goes on to the offset commit without a record.
HandlerDlq_Swallowed(c) ==
    /\ pc[c] = "h_dlq"
    /\ \/ /\ dlqTopic' = dlqTopic \cup {DlqRecord(c)}
          /\ dlqd' = dlqd \cup {MsgId(c)}
          /\ UNCHANGED faults
       \/ /\ CanFault
          /\ faults' = faults + 1
          /\ UNCHANGED <<dlqTopic, dlqd>>
    /\ pc' = [pc EXCEPT ![c] = "h_mark_failed"]
    /\ UNCHANGED <<log, position, offset, err, enriched, late, storeVars,
                   outTopic, published, acked, committed, otherVars>>

\* dlq(producer, msg, err): produce the record and flush(5).
HandlerDlq(c) ==
    /\ pc[c] = "h_dlq"
    /\ \/ /\ dlqTopic' = dlqTopic \cup {DlqRecord(c)}
          /\ dlqd' = dlqd \cup {MsgId(c)}
          /\ pc' = [pc EXCEPT ![c] = "h_mark_failed"]
          /\ UNCHANGED faults
       \/ /\ CanFault
          /\ faults' = faults + 1
          /\ dlqd' = dlqd \cup {MsgId(c)}
          /\ pc' = [pc EXCEPT ![c] = "h_mark_failed"]
          /\ UNCHANGED dlqTopic
       \/ /\ Terminate(c)
          /\ UNCHANGED <<dlqTopic, dlqd>>
    /\ UNCHANGED <<log, position, offset, err, enriched, late, storeVars,
                   outTopic, published, acked, committed, otherVars>>

\* _mark_failed(conn, msg): best-effort status='failed'.
HandlerMarkFailed(c) ==
    /\ pc[c] = "h_mark_failed"
    /\ pc' = [pc EXCEPT ![c] = "h_commit"]
    /\ LET t == FailedTicketId(Msg(c)) IN
        \/ /\ Msg(c).kind = "not_json"
           /\ ConnRollback(c)
           /\ UNCHANGED faults
        \/ /\ Msg(c).kind # "not_json"
           /\ t = NoId
           /\ UNCHANGED <<storeVars, faults>>
        \/ /\ t # NoId
           /\ VisibleRow(c, t) = NoRow
           /\ CommitWrites(c, tx[c])
           /\ UNCHANGED faults
        \/ /\ t # NoId
           /\ VisibleRow(c, t) # NoRow
           /\ ~RowLockedByOther(c, t)
           /\ CommitWrites(c, [tx[c] EXCEPT !.rows[t] =
                    [VisibleRow(c, t) EXCEPT !.status = "failed"]])
           /\ UNCHANGED faults
        \/ /\ t # NoId
           /\ CanFault
           /\ faults' = faults + 1
           /\ ConnRollback(c)
    /\ UNCHANGED <<log, position, offset, err, enriched, late, busVars, otherVars>>

\* The offset commit that ends an except arm.
HandlerCommit(c) ==
    /\ pc[c] = "h_commit"
    /\ \/ /\ CommitOffset(c, "dlq")
          /\ ToIdle(c)
          /\ UNCHANGED faults
       \/ /\ Terminate(c)
          /\ UNCHANGED <<committed, acked, offset, err, enriched, late>>
    /\ UNCHANGED <<log, position, storeVars, outTopic, dlqTopic, published,
                   dlqd, otherVars>>

\* A new process: its connection is new, and the group's committed offset is
\* where it resumes.
Resume(c) ==
    /\ ToIdle(c)
    /\ position' = [position EXCEPT ![c] = committed[c] + 1]
    /\ ConnRollback(c)
    /\ UNCHANGED <<log, busVars>>

\* The process is killed while it handles a message, and started again.
Crash(c) ==
    /\ pc[c] \notin {"idle", "terminated"}
    /\ CanFault
    /\ faults' = faults + 1
    /\ Resume(c)
    /\ UNCHANGED otherVars

\* main() was left by an exception; the process is started again.
Restart(c) ==
    /\ pc[c] = "terminated"
    /\ Resume(c)
    /\ UNCHANGED <<otherVars, faults>>

Next ==
    \/ \E p \in Consumers, m \in Payloads : Produce(p, m)
    \/ \E c \in Consumers : Poll(c)
    \/ \E c \in Consumers : PollKafkaError(c)
    \/ \E c \in Consumers : CheckDuplicate(c)
    \/ \E c \in Consumers : DupCommit(c)
    \/ \E c \in Consumers : Enrich(c)
    \/ \E c \in Consumers : Upsert(c)
    \/ \E c \in Consumers : MarkProcessed(c)
    \/ \E c \in Consumers : TxCommit(c)
    \/ \E c \in Consumers : Publish(c)
    \/ \E c \in Consumers : Ack(c)
    \/ \E c \in Consumers : HandlerRollback(c)
    \/ \E c \in Consumers : HandlerDlq(c)
    \/ \E c \in Consumers : HandlerMarkFailed(c)
    \/ \E c \in Consumers : HandlerCommit(c)
    \/ \E c \in Consumers : Crash(c)
    \/ \E c \in Consumers : Restart(c)

Spec == Init /\ [][Next]_vars

SpecGroup == InitGroup /\ [][Next]_vars

\* Two instances, and nothing fails but the messages themselves: no kill, no
\* store or bus error, no undelivered produce.
InitOrder ==
    /\ members = Consumers
    /\ faults = MaxFaults
    /\ norm = NormIdle
    /\ call = CallIdle
    /\ InitStore

NextOrder ==
    \/ \E p \in Consumers, m \in Payloads : Produce(p, m)
    \/ \E c \in Consumers : Poll(c)
    \/ \E c \in Consumers : CheckDuplicate(c)
    \/ \E c \in Consumers : DupCommit(c)
    \/ \E c \in Consumers : Enrich(c)
    \/ \E c \in Consumers : Upsert(c)
    \/ \E c \in Consumers : MarkProcessed(c)
    \/ \E c \in Consumers : TxCommit(c)
    \/ \E c \in Consumers : Publish(c)
    \/ \E c \in Consumers : Ack(c)
    \/ \E c \in Consumers : HandlerRollback(c)
    \/ \E c \in Consumers : HandlerDlq(c)
    \/ \E c \in Consumers : HandlerMarkFailed(c)
    \/ \E c \in Consumers : HandlerCommit(c)

SpecOrder == InitOrder /\ [][NextOrder]_vars

\* ------------------------------------------------------------ properties
MsgAt(m) == log[m[1]][m[2]]
AckedMsgs == {a.m : a \in acked}
DuplicateAcked == {a.m : a \in {b \in acked : b.via = "dup"}}

\* Every member is back at poll and every message of its partition has its
\* offset committed: nothing is in flight and nothing will be delivered again.
Quiescent ==
    \A c \in members : pc[c] = "idle" /\ committed[c] = Len(log[c])

\* C1: for every event_id, at most one transaction that upserts
\* enriched_tickets for it ever commits, also with two instances handling
\* messages that carry it concurrently.
C1_AtMostOneUpsertCommit ==
    \A e \in EventIds : upsertCommits[e] <= 1

\* C2: a message polled after the transaction of its event_id committed is
\* handled as a duplicate only: it goes through the ledger lookup and the
\* offset commit of the duplicate arm and through no other step (no
\* retrieval, no LLM call, no store write, no output, no DLQ record).
C2_LaterMessageIsDuplicate ==
    \A c \in Consumers : late[c] => pc[c] \in {"check", "dup_commit"}

\* C3: the upsert of event e and the ledger entry e are committed together:
\* in every committed store state, e is in processed_events iff a transaction
\* that upserted e committed, and a visible row names an event of the ledger.
C3_UpsertAndLedgerAtomic ==
    /\ \A e \in EventIds : (e \in ledger) <=> (upsertCommits[e] > 0)
    /\ \A t \in TicketIds : tickets[t] # NoRow => tickets[t].last_event_id \in ledger

\* A committed enrichment that an error arm then marked failed: the success
\* path and the error path both wrote the store.
C3_Witness ==
    \E t \in TicketIds :
        /\ tickets[t].last_event_id \in ledger
        /\ tickets[t].status = "failed"
        /\ faults > 0

\* C4: a row of enriched_tickets whose last_event_id is in processed_events
\* has status 'enriched'.
C4_LedgeredRowIsEnriched ==
    \A t \in TicketIds :
        (tickets[t] # NoRow /\ tickets[t].last_event_id \in ledger)
            => tickets[t].status = "enriched"

C6_CommittedEventIsPublished ==
    Quiescent => \A e \in ledger : \E ev \in outTopic : ev.event_id = e

\* C7: an offset is committed only for a message that reached Published or
\* DLQd or was found to be a duplicate, and the group's committed offset
\* covers only such messages.
C7_OffsetOnlyAfterTerminal ==
    /\ \A a \in acked :
        \/ a.via = "ok" /\ a.m \in published
        \/ a.via = "dlq" /\ a.m \in dlqd
        \/ a.via = "dup" /\ MsgAt(a.m).event_id \in ledger
    /\ \A c \in Consumers : \A o \in 1..committed[c] : <<c, o>> \in AckedMsgs

\* After a failure was injected, one message was acked on the success arc and
\* one on the DLQ arc.
C7_Witness ==
    /\ faults > 0
    /\ \E a, b \in acked : a.via = "ok" /\ b.via = "dlq"

\* C8: the committed offsets are the union of the Published, DLQd and
\* DuplicateAcked offsets once the run is over, and these three sets are
\* pairwise disjoint.
C8_CommittedIsDisjointUnion ==
    /\ Quiescent => AckedMsgs = published \cup dlqd \cup DuplicateAcked
    /\ published \cap dlqd = {}
    /\ published \cap DuplicateAcked = {}
    /\ dlqd \cap DuplicateAcked = {}

\* C9: no error of a single message ends the consumer loop.
C9_LoopNeverTerminates ==
    \A c \in Consumers : pc[c] # "terminated"

\* C10: the offset of a failed message is committed only if its DLQ record
\* was delivered to the DLQ topic.
C10_NoAckWithoutDlqRecord ==
    \A a \in acked :
        a.via = "dlq" =>
            \E r \in dlqTopic : r.partition = a.m[1] /\ r.offset = a.m[2]

\* The records of the DLQ topic that name message m.
DlqRecordsOf(m) == {r \in dlqTopic : r.partition = m[1] /\ r.offset = m[2]}

\* C11: every message whose handling raised an exception has exactly one
\* record on the DLQ topic when its offset is committed by an except arm, a
\* message with a DLQ record has its offset committed by that arm once the
\* run is over, and a record's error text begins with "unexpected: " iff the
\* exception is none of JSONDecodeError, ValidationError, ValueError.
C11_ExactlyOneDlqRecordThenCommit ==
    /\ \A a \in acked :
        a.via = "dlq" => Cardinality(DlqRecordsOf(a.m)) = 1
    /\ Quiescent =>
        \A r \in dlqTopic :
            [m |-> <<r.partition, r.offset>>, via |-> "dlq"] \in acked
    /\ \A r \in dlqTopic :
        (r.error[1] = "unexpected: ") <=> ~Classified(r.error[2])

\* C12: after dlq() has returned for a failed message whose payload is a JSON
\* object with the ticket_id of a row of enriched_tickets, a DLQ record with
\* the message's partition, offset and payload is on the DLQ topic, and when
\* the except arm reaches its offset commit that row's status is 'failed'.
C12_FailedTicketMarkedAndRecorded ==
    \A c \in members :
        (/\ pc[c] \in {"h_mark_failed", "h_commit"}
         /\ FailedTicketId(Msg(c)) # NoId
         /\ tickets[FailedTicketId(Msg(c))] # NoRow)
        => /\ \E r \in DlqRecordsOf(MsgId(c)) : r.payload = Msg(c).kind
           /\ pc[c] = "h_commit" =>
                tickets[FailedTicketId(Msg(c))].status = "failed"

\* Payloads from which _mark_failed gets no ticket_id.
NoTicketKinds == {"empty", "not_json", "no_ticket_id"}

InExceptArm(c) == pc[c] \in {"h_rollback", "h_dlq", "h_mark_failed", "h_commit"}

\* C13: while an except arm handles a message whose payload is empty, is not
\* JSON, or is JSON without a ticket_id, no step changes a committed row of
\* enriched_tickets or of processed_events or the output topic; the arm adds
\* at most the message's DLQ record and commits no offset but the message's.
C13_NoTicketFailureLeavesStore ==
    [][\A c \in members :
        (InExceptArm(c) /\ Msg(c).kind \in NoTicketKinds)
        => /\ tickets' = tickets
           /\ ledger' = ledger
           /\ upsertCommits' = upsertCommits
           /\ outTopic' = outTopic
           /\ dlqTopic' \subseteq dlqTopic \cup {DlqRecord(c)}
           /\ committed'[c] \in {committed[c], offset[c]}]_vars

\* An enriched ticket is in the store, and a later message without a
\* ticket_id went through an except arm to its offset commit.
C13_Witness ==
    /\ \E t \in TicketIds : tickets[t].status = "enriched"
    /\ ledger # {}
    /\ \E a \in acked : a.via = "dlq" /\ MsgAt(a.m).kind \in NoTicketKinds

\* C14: the step in which poll returns a message carrying a Kafka-level
\* error commits no offset, writes nothing to the store (committed or
\* pending), produces nothing to the output or DLQ topic, and leaves the
\* consumer at poll with its fetch position unchanged.
C14_KafkaErrorChangesNothing ==
    [][kafkaErrors' # kafkaErrors
        => UNCHANGED <<log, consumerVars, storeVars, busVars>>]_vars

\* poll returned an error before any offset was committed, and the next poll
\* returned the partition's first message, which is now being handled.
C14_Witness ==
    \E c \in members :
        /\ kafkaErrors > 0
        /\ committed[c] = 0
        /\ pc[c] = "check"
        /\ offset[c] = 1

\* ============================================== the LLM result on its own
pipelineVars ==
    <<log, consumerVars, storeVars, busVars, members, faults, kafkaErrors, call>>

\* call_claude has returned an object for the valid event (e1, t1).
InitNormalize ==
    /\ members = {}
    /\ faults = 0
    /\ call = CallIdle
    /\ InitStore
    /\ norm \in {[stage |-> "called", llm |-> o, enriched |-> NoEnriched,
                  row |-> NoNormRow, out |-> NoEvent] : o \in LlmObjects}

\* Lines 327-330; .strip() or .split() of a non-string raises AttributeError,
\* which the second except arm sends to the DLQ before any store write.
NormalizeResult ==
    /\ norm.stage = "called"
    /\ IF \/ NotAString(norm.llm.category)
          \/ NotAString(norm.llm.sentiment)
          \/ NotAString(norm.llm.suggested_reply)
       THEN norm' = [norm EXCEPT !.stage = "dlq"]
       ELSE norm' = [norm EXCEPT !.stage = "normalized",
                                 !.enriched = NormalizeEnriched(norm.llm)]
    /\ UNCHANGED pipelineVars

\* Lines 334-367: upsert, mark_processed, conn.commit().
StoreResult ==
    /\ norm.stage = "normalized"
    /\ norm' = [norm EXCEPT !.stage = "committed",
                            !.row = EnrichedRow(norm.enriched)]
    /\ UNCHANGED pipelineVars

\* Lines 369-378: build and validate the event, produce it; on a validation
\* error the except arm's _mark_failed sets the committed row to 'failed'.
PublishResult ==
    /\ norm.stage = "committed"
    /\ IF ValidEnrichedEvent(BuildOut(norm.enriched))
       THEN norm' = [norm EXCEPT !.stage = "published",
                                 !.out = BuildOut(norm.enriched)]
       ELSE norm' = [norm EXCEPT !.stage = "dlq", !.row.status = "failed"]
    /\ UNCHANGED pipelineVars

NextNormalize ==
    \/ NormalizeResult
    \/ StoreResult
    \/ PublishResult

SpecNormalize == InitNormalize /\ [][NextNormalize]_vars

\* 0 <= f <= 1 as real numbers.
InUnit(f) == f.k = "fin" /\ f.v >= 0 /\ f.v <= 10

\* The LLM result's row has been committed (whatever its status is now).
RowCommitted == norm.row.status # "absent"

\* C15: for every value the LLM returns as risk, the risk of the committed
\* row and of the published event is within [0, 1]; a value that is no
\* number (null, a list, text that is no numeral) becomes 0.0, a number below
\* 0 becomes 0.0 and a number above 1 becomes 1.0.
C15_RiskWithinUnitInterval ==
    /\ RowCommitted => InUnit(norm.row.risk)
    /\ norm.stage = "published" => InUnit(norm.out.risk)
    /\ (RowCommitted /\ norm.llm.risk \in {JNull, JStr(Txt(<<"high">>))})
        => norm.row.risk = Fin(0)
    /\ (RowCommitted /\ norm.llm.risk.type = "number" /\ norm.llm.risk.f.k = "fin")
        => norm.row.risk =
            Fin(IF norm.llm.risk.f.v < 0 THEN 0
                ELSE IF norm.llm.risk.f.v > 10 THEN 10
                ELSE norm.llm.risk.f.v)

\* C16: for every string (also empty or missing) the LLM returns as category
\* and as sentiment, the committed row and the published event hold a
\* category of the nine-value enum and a sentiment of the three-value enum.
C16_EnumClosure ==
    /\ RowCommitted =>
        /\ norm.row.category \in CATEGORY_ENUM
        /\ norm.row.sentiment \in SENTIMENT_ENUM
    /\ norm.stage = "published" =>
        /\ norm.out.category \in CATEGORY_ENUM
        /\ norm.out.sentiment \in SENTIMENT_ENUM

\* "  Billing & Subscriptions " and "Frustrated", neither an enum member, were
\* published as billing / negative.
C16_Witness ==
    /\ norm.stage = "published"
    /\ norm.llm.category = JStr(Raw(<<"billing", "&", "subscriptions">>))
    /\ norm.llm.sentiment = JStr(Raw(<<"frustrated">>))
    /\ norm.out.category = "billing"
    /\ norm.out.sentiment = "negative"
    /\ norm.row.category = "billing"

\* SQL NULL: the value psycopg sends for None.
IsNull(value) == value.type \in {"null", "missing"}

\* C17: whatever JSON object the LLM returns, a committed row with status
\* 'enriched' has non-null summary, category, sentiment, risk and
\* suggested_reply.
C17_EnrichedRowHasAllFields ==
    (RowCommitted /\ norm.row.status = "enriched")
    => /\ ~IsNull(norm.row.summary)
       /\ norm.row.category # ""
       /\ norm.row.sentiment # ""
       /\ norm.row.risk # NoFloat
       /\ ~IsNull(norm.row.suggested_reply)

\* C18: every event produced to the output topic has schema_version 1, an
\* event_id and a ticket_id, a string summary and suggested_reply, category
\* and sentiment of their enums and 0 <= risk <= 1.
C18_ProducedEventIsValid ==
    norm.stage = "published"
    => /\ norm.out.schema_version = ENRICHED_EVENT_SCHEMA_VERSION
       /\ norm.out.event_id # NoId
       /\ norm.out.ticket_id # NoId
       /\ norm.out.summary.type = "string"
       /\ norm.out.category \in CATEGORY_ENUM
       /\ norm.out.sentiment \in SENTIMENT_ENUM
       /\ InUnit(norm.out.risk)
       /\ norm.out.suggested_reply.type = "string"

\* ---------------------------------------------------- order of processing
\* What handling message m alone, after the messages before it, does to the
\* store: the enrichment transaction of a new event, nothing for an event of
\* the ledger, _mark_failed for a payload that fails validation.
ApplyMessage(st, m) ==
    CASE m.kind = "valid" /\ m.event_id \notin st.ledger ->
            [rows |-> [st.rows EXCEPT ![m.ticket_id] =
                        [last_event_id |-> m.event_id, status |-> "enriched",
                         summary |-> "summary"]],
             ledger |-> st.ledger \cup {m.event_id}]
      [] m.kind = "schema_invalid" /\ st.rows[m.ticket_id] # NoRow ->
            [st EXCEPT !.rows[m.ticket_id].status = "failed"]
      [] OTHER -> st

\* The store after the messages of S were handled one after the other.
RECURSIVE SerialStore(_)
SerialStore(S) ==
    IF S = <<>>
    THEN [rows |-> [t \in TicketIds |-> NoRow], ledger |-> {}]
    ELSE ApplyMessage(SerialStore(SubSeq(S, 1, Len(S) - 1)), S[Len(S)])

\* The LLM returned a complete object for every valid event: each valid
\* message ended on the success arc or as a duplicate.
EveryValidEnriched ==
    \A a \in acked : MsgAt(a.m).kind = "valid" => a.via \in {"ok", "dup"}

\* All messages that name a ticket lie in one partition.
CoPartitioned ==
    \A t \in TicketIds :
        Cardinality({c \in Consumers :
            \E i \in 1..Len(log[c]) : FailedTicketId(log[c][i]) = t}) <= 1

\* Every message of the input topic is a valid ticket event.
OnlyTicketEvents ==
    \A c \in Consumers : \A i \in 1..Len(log[c]) : log[c][i].kind = "valid"

C20_FailedTicketReEnriched ==
    [][\A c \in members :
        /\ (/\ pc[c] = "commit"
            /\ pc'[c] = "publish"
            /\ tickets[Msg(c).ticket_id].status = "failed")
           => /\ tickets'[Msg(c).ticket_id].status = "enriched"
              /\ tickets'[Msg(c).ticket_id].last_event_id = Msg(c).event_id
        /\ (pc[c] = "ack" /\ pc'[c] = "idle" /\ acked' # acked)
           => /\ tickets'[Msg(c).ticket_id].status = "enriched"
              /\ tickets'[Msg(c).ticket_id].last_event_id = Msg(c).event_id]_vars

\* With no failure injected, an event of the ticket was committed and then
\* sent to the DLQ (its row marked failed), and a later event with another
\* event_id ended on the success arc: the row is enriched and names it.
C20_Witness ==
    \E a, b \in acked :
        /\ faults = 0
        /\ a.via = "dlq"
        /\ MsgAt(a.m).kind = "valid"
        /\ MsgAt(a.m).event_id \in ledger
        /\ b.via = "ok"
        /\ b.m[1] = a.m[1]
        /\ b.m[2] > a.m[2]
        /\ MsgAt(b.m).ticket_id = MsgAt(a.m).ticket_id
        /\ MsgAt(b.m).event_id # MsgAt(a.m).event_id
        /\ tickets[MsgAt(b.m).ticket_id].status = "enriched"
        /\ tickets[MsgAt(b.m).ticket_id].last_event_id = MsgAt(b.m).event_id

\* ================================================= hybrid merge on its own
\* Chunks of the knowledge base (kb_chunks.id).
MaxChunks == 3
ChunkIds == 1..MaxChunks

\* The result lists a search can return: rows of kb_chunks in some order, no
\* row twice.
Rankings ==
    {r \in UNION {[1..n -> ChunkIds] : n \in 0..MaxChunks} :
        \A i, j \in DOMAIN r : i # j => r[i] # r[j]}

Min(a, b) == IF a < b THEN a ELSE b
Max(a, b) == IF a > b THEN a ELSE b
Take(s, n) == SubSeq(s, 1, Min(Max(n, 0), Len(s)))
Ids(s) == {s[i] : i \in DOMAIN s}

\* The loop over the keyword list: i is the next keyword candidate, added
\* the number of keyword candidates appended so far.
RECURSIVE MergeFrom(_, _, _, _, _, _)
MergeFrom(merged, secondary, i, added, limit, secondary_max) ==
    IF i > Len(secondary) \/ Len(merged) >= limit \/ added >= secondary_max
    THEN merged
    ELSE IF secondary[i] \in Ids(merged)
         THEN MergeFrom(merged, secondary, i + 1, added, limit, secondary_max)
         ELSE MergeFrom(Append(merged, secondary[i]), secondary, i + 1,
                        added + 1, limit, secondary_max)

\* Mutant of MergeCandidates: the cap on keyword entries is not applied.
MergeCandidates_NoCap(primary, secondary, limit, secondary_max) ==
    MergeFrom(primary, secondary, 1, 0, limit, Len(secondary))

\* _merge_candidates(primary, secondary, limit, secondary_max)
MergeCandidates(primary, secondary, limit, secondary_max) ==
    MergeFrom(primary, secondary, 1, 0, limit, secondary_max)

\* The dense and the keyword search have returned; the limit of the merge,
\* KB_CANDIDATES, is the limit of the dense search as well.
InitMerge ==
    /\ members = {}
    /\ faults = 0
    /\ norm = NormIdle
    /\ InitStore
    /\ call \in {[fn |-> "merge", stage |-> "searched", primary |-> p,
                  secondary |-> s, limit |-> l, secondary_max |-> m,
                  merged |-> <<>>] :
                 p \in Rankings, s \in Rankings,
                 l \in 0..(MaxChunks + 1), m \in 0..MaxChunks}
    /\ Len(call.primary) <= call.limit

nonCallVars ==
    <<log, consumerVars, storeVars, busVars, members, faults, kafkaErrors, norm>>

Merge ==
    /\ call.fn = "merge"
    /\ call.stage = "searched"
    /\ call' = [call EXCEPT !.stage = "merged",
                            !.merged = MergeCandidates(call.primary, call.secondary,
                                                       call.limit, call.secondary_max)]
    /\ UNCHANGED nonCallVars

\* The merged list is handed on to the reranker or to the truncation.
MergeDone ==
    /\ call.fn = "merge"
    /\ call.stage = "merged"
    /\ call' = [call EXCEPT !.stage = "returned"]
    /\ UNCHANGED nonCallVars

NextMerge ==
    \/ Merge
    \/ MergeDone

SpecMerge == InitMerge /\ [][NextMerge]_vars

\* The keyword candidates whose id is neither a dense candidate's nor that
\* of an earlier keyword candidate, in keyword order.
RECURSIVE Fresh(_, _)
Fresh(secondary, seen) ==
    IF secondary = <<>> THEN <<>>
    ELSE IF Head(secondary) \in seen
         THEN Fresh(Tail(secondary), seen)
         ELSE <<Head(secondary)>> \o Fresh(Tail(secondary), seen \cup {Head(secondary)})

Scores == {0, 1}

\* scored.sort(key=score, reverse=True) is stable: an item goes behind every
\* item whose score is not lower.
RECURSIVE InsertByScore(_, _, _)
InsertByScore(sorted, chunk, scores) ==
    IF sorted = <<>> THEN <<chunk>>
    ELSE IF scores[Head(sorted)] >= scores[chunk]
         THEN <<Head(sorted)>> \o InsertByScore(Tail(sorted), chunk, scores)
         ELSE <<chunk>> \o sorted

RECURSIVE SortByScore(_, _)
SortByScore(chunks, scores) ==
    IF chunks = <<>> THEN <<>>
    ELSE InsertByScore(SortByScore(SubSeq(chunks, 1, Len(chunks) - 1), scores),
                       chunks[Len(chunks)], scores)

\* Mutant of RerankChunks: the scored list is sorted in ascending order.
RerankChunks_Ascending(chunks, scores, top_n) ==
    Take(SortByScore(chunks, [c \in DOMAIN scores |-> 0 - scores[c]]), top_n)

\* rerank_chunks, lines 33-38 of reranker.py.
RerankChunks(chunks, scores, top_n) == Take(SortByScore(chunks, scores), top_n)

\* The title and heading_path columns of the chunks (NULL for some).
KbChunk(id) ==
    CASE id = 1 -> [id |-> 1, title |-> "Doc A", heading_path |-> "Intro"]
      [] id = 2 -> [id |-> 2, title |-> Null, heading_path |-> Null]
      [] OTHER -> [id |-> id, title |-> "Doc B", heading_path |-> Null]

\* The value under a key of a JSON object: the key may be missing.
Absent == [present |-> FALSE, list |-> <<>>]
Present(list) == [present |-> TRUE, list |-> list]

\* What call_claude's object can hold under "citations": the prompt asks
\* for five other keys, and nothing removes a sixth.
\* A citation entry: its chunk_id is an integer or, here, a string.
Cite(c) ==
    [chunk_id |-> [type |-> "integer", v |-> c], title |-> "Doc",
     heading_path |-> "A"]
CiteNotAnInt ==
    [chunk_id |-> [type |-> "string", v |-> 0], title |-> "Doc",
     heading_path |-> "A"]

LlmCitations ==
    {Absent, Present(<<>>), Present(<<CiteNotAnInt>>)}
    \cup {Present(<<Cite(c)>>) : c \in ChunkIds}

GoodLlmObject ==
    [summary |-> JStr(Txt(<<"payment", "issue">>)),
     category |-> JStr(Txt(<<"billing">>)),
     sentiment |-> JStr(Txt(<<"positive">>)), risk |-> JNum(Fin(5)),
     suggested_reply |-> ShortReply, extra |-> "none"]

\* The objects call_claude returns here: a complete one with each value of
\* "citations", and one without summary.
RetrieveLlmObjects ==
    {[base |-> GoodLlmObject, citations |-> c] : c \in LlmCitations}
    \cup {[base |-> [GoodLlmObject EXCEPT !.summary = JMissing],
           citations |-> Absent]}

\* The query of one valid event is about to be answered.  ranking is the
\* rows of kb_chunks that have an embedding, nearest first.
InitRetrieve ==
    /\ members = {}
    /\ faults = 0
    /\ norm = NormIdle
    /\ InitStore
    /\ call \in {[fn |-> "retrieve", stage |-> "query", ranking |-> r,
                  KB_CANDIDATES |-> l, KB_TOP_K |-> k, RERANK_ENABLED |-> e,
                  scores |-> s, candidates |-> <<>>, chunks |-> <<>>,
                  model_loaded |-> FALSE, predict_calls |-> 0,
                  llm |-> [base |-> GoodLlmObject, citations |-> Absent],
                  row_citations |-> Absent, out_citations |-> Absent] :
                 r \in Rankings, l \in 0..(MaxChunks + 1), k \in 0..MaxChunks,
                 e \in BOOLEAN, s \in [ChunkIds -> Scores]}
    /\ call.RERANK_ENABLED \/ call.scores = [c \in ChunkIds |-> 0]

\* Line 317: search_similar_chunks(conn, query_embedding, top_k=KB_CANDIDATES).
SearchSimilarChunks ==
    /\ call.fn = "retrieve"
    /\ call.stage = "query"
    /\ call' = [call EXCEPT !.stage = "candidates",
                            !.candidates = Take(call.ranking, call.KB_CANDIDATES)]
    /\ UNCHANGED nonCallVars

\* Lines 318-319 and rerank_chunks: an empty list returns before _get_model.
Rerank ==
    /\ call.fn = "retrieve"
    /\ call.stage = "candidates"
    /\ call.RERANK_ENABLED
    /\ IF call.candidates = <<>>
       THEN call' = [call EXCEPT !.stage = "chunks", !.chunks = <<>>]
       ELSE call' = [call EXCEPT !.stage = "chunks",
                                 !.model_loaded = TRUE,
                                 !.predict_calls = @ + 1,
                                 !.chunks = RerankChunks(call.candidates, call.scores,
                                                         call.KB_TOP_K)]
    /\ UNCHANGED nonCallVars

\* Mutant of Truncate: every candidate is passed on.
Truncate_NoSlice ==
    /\ call.fn = "retrieve"
    /\ call.stage = "candidates"
    /\ ~call.RERANK_ENABLED
    /\ call' = [call EXCEPT !.stage = "chunks", !.chunks = call.candidates]
    /\ UNCHANGED nonCallVars

\* Lines 320-321: chunks = candidates[:KB_TOP_K].
Truncate ==
    /\ call.fn = "retrieve"
    /\ call.stage = "candidates"
    /\ ~call.RERANK_ENABLED
    /\ call' = [call EXCEPT !.stage = "chunks",
                            !.chunks = Take(call.candidates, call.KB_TOP_K)]
    /\ UNCHANGED nonCallVars

\* Lines 322-324: the context of the chunks goes into the prompt; the model
\* answers with an object of its own making.
CallClaude ==
    /\ call.fn = "retrieve"
    /\ call.stage = "chunks"
    /\ \E o \in RetrieveLlmObjects :
        call' = [call EXCEPT !.stage = "called", !.llm = o]
    /\ UNCHANGED nonCallVars

\* Lines 327-367: the four normalised keys are overwritten, every other key
\* of the object stays; the INSERT names no citations column, which is
\* nullable and has no default.
StoreEnriched ==
    /\ call.fn = "retrieve"
    /\ call.stage = "called"
    /\ call' = [call EXCEPT !.stage = "committed", !.row_citations = Absent]
    /\ UNCHANGED nonCallVars

\* Lines 369-378: out is the envelope and **enriched; the schema has no
\* "citations" property and allows additional properties.
PublishEnriched ==
    /\ call.fn = "retrieve"
    /\ call.stage = "committed"
    /\ IF ValidEnrichedEvent(BuildOut(NormalizeEnriched(call.llm.base)))
       THEN call' = [call EXCEPT !.stage = "published",
                                 !.out_citations = call.llm.citations]
       ELSE call' = [call EXCEPT !.stage = "dlq"]
    /\ UNCHANGED nonCallVars

NextRetrieve ==
    \/ SearchSimilarChunks
    \/ Rerank
    \/ Truncate
    \/ CallClaude
    \/ StoreEnriched
    \/ PublishEnriched

SpecRetrieve == InitRetrieve /\ [][NextRetrieve]_vars

Selected == call.fn = "retrieve" /\ call.stage \notin {"query", "candidates"}

\* C22: with reranking disabled the chunks handed to the prompt are the
\* first KB_TOP_K candidates in candidate order, and the candidate list (no
\* keyword search takes part) is the dense result limited to KB_CANDIDATES.
C22_TruncationWithoutRerank ==
    (Selected /\ ~call.RERANK_ENABLED) =>
        /\ Len(call.chunks) = Min(call.KB_TOP_K, Len(call.candidates))
        /\ \A i \in DOMAIN call.chunks : call.chunks[i] = call.candidates[i]
        /\ Len(call.candidates) = Min(call.KB_CANDIDATES, Len(call.ranking))
        /\ \A i \in DOMAIN call.candidates : call.candidates[i] = call.ranking[i]

\* Reranking is off and both limits cut: fewer candidates than rows, fewer
\* chunks than candidates.
C22_Witness ==
    /\ Selected
    /\ ~call.RERANK_ENABLED
    /\ call.chunks # <<>>
    /\ Len(call.chunks) < Len(call.candidates)
    /\ Len(call.candidates) < Len(call.ranking)

\* The place of a chunk in the candidate list.
Place(c) == CHOOSE i \in DOMAIN call.candidates : call.candidates[i] = c

\* Chunk a comes before chunk b in the reranked order.
Before(a, b) ==
    \/ call.scores[a] > call.scores[b]
    \/ call.scores[a] = call.scores[b] /\ Place(a) < Place(b)

\* C23: the reranker returns the top_n candidates that come first by
\* descending score, equal scores in candidate order; for an empty candidate
\* list it returns the empty list and the model is neither loaded nor asked.
C23_RerankStableDescending ==
    (Selected /\ call.RERANK_ENABLED) =>
        /\ Len(call.chunks) = Min(call.KB_TOP_K, Len(call.candidates))
        /\ Ids(call.chunks) \subseteq Ids(call.candidates)
        /\ \A i, j \in DOMAIN call.chunks :
              i < j => Before(call.chunks[i], call.chunks[j])
        /\ \A a \in Ids(call.chunks), b \in Ids(call.candidates) \ Ids(call.chunks) :
              Before(a, b)
        /\ call.candidates = <<>> =>
              (call.chunks = <<>> /\ ~call.model_loaded /\ call.predict_calls = 0)

\* Three candidates were reranked to two chunks: a later candidate with a
\* higher score leads, and of two candidates with equal scores only the
\* earlier one is kept.
C23_Witness ==
    /\ Selected
    /\ call.RERANK_ENABLED
    /\ Len(call.candidates) = 3
    /\ Len(call.chunks) = 2
    /\ Place(call.chunks[1]) > 1
    /\ \E b \in Ids(call.candidates) \ Ids(call.chunks) :
          call.scores[b] = call.scores[call.chunks[2]]

\* _build_citations(chunks): one entry per chunk that has an id, with the
\* defaults for a missing title and heading_path.
BuildCitations(chunks) ==
    LET withId == SelectSeq(chunks, LAMBDA c : KbChunk(c).id \in ChunkIds)
    IN [i \in DOMAIN withId |->
           [chunk_id |-> [type |-> "integer", v |-> KbChunk(withId[i]).id],
            title |-> IF KbChunk(withId[i]).title = Null
                      THEN "Untitled" ELSE KbChunk(withId[i]).title,
            heading_path |-> IF KbChunk(withId[i]).heading_path = Null
                             THEN "" ELSE KbChunk(withId[i]).heading_path]]

\* The list under a key, a missing key or a NULL column read as no entry.
CitationsOf(x) == IF x.present THEN x.list ELSE <<>>

\* C24: the citations of an enrichment are the entries built from the
\* chunks handed to the prompt, in their order (chunk_id, title or
\* "Untitled", heading_path or ""), none when there was no chunk; the
\* committed row and the published event both hold that list.  Stated for
\* the LLM objects that hold the five keys asked for and no other.
C24_CitationsStoredAndCarried ==
    (call.fn = "retrieve" /\ call.stage = "published"
        /\ call.llm.citations = Absent) =>
        /\ CitationsOf(call.row_citations) = BuildCitations(call.chunks)
        /\ CitationsOf(call.out_citations) = BuildCitations(call.chunks)

\* C25: every chunk_id among the citations of a published event is the id
\* of one of the chunks retrieved and handed to the prompt for that event,
\* whatever object the LLM returned.
C25_CitationsWithinRetrieved ==
    (call.fn = "retrieve" /\ call.stage = "published") =>
        \A i \in DOMAIN CitationsOf(call.out_citations) :
            LET id == CitationsOf(call.out_citations)[i].chunk_id
            IN id.type = "integer" => id.v \in Ids(call.chunks)

\* C26: an event whose citations hold an entry with a chunk_id that is no
\* integer fails validation and so is never produced, and an event with an
\* empty citations list or without the key is not rejected for it.
C26_BadCitationRejected ==
    call.fn = "retrieve" =>
        /\ call.stage = "published" =>
              \A i \in DOMAIN CitationsOf(call.out_citations) :
                  CitationsOf(call.out_citations)[i].chunk_id.type = "integer"
        /\ (call.stage = "dlq" /\ call.llm.base = GoodLlmObject) =>
              CitationsOf(call.llm.citations) # <<>>

\* =================================== TicketEvent validation, lines 303-313
\* A JSON value of a ticket object: its type, and its length (a string) or
\* its value (a number).
TStr(n) == [type |-> "string", n |-> n]
TInt(v) == [type |-> "integer", n |-> v]
TBool == [type |-> "boolean", n |-> 1]
TNull == [type |-> "null", n |-> 0]
TMissing == [type |-> "missing", n |-> 0]

TICKET_EVENT_SCHEMA_VERSION == 1

\* TICKET_EVENT_SCHEMA: "required" and "properties" (minLength 0 and an
\* empty enum stand for a keyword the property does not have).
TICKET_EVENT_REQUIRED ==
    {"schema_version", "event_id", "ticket_id", "ts", "subject", "body",
     "channel", "priority"}

StringProperty(minLength) == [type |-> "string", minLength |-> minLength, enum |-> {}]

TICKET_EVENT_PROPERTIES ==
    [schema_version |-> [type |-> "integer", minLength |-> 0,
                         enum |-> {TICKET_EVENT_SCHEMA_VERSION}],
     event_id |-> StringProperty(8),
     ticket_id |-> StringProperty(1),
     ts |-> StringProperty(0),
     subject |-> StringProperty(0),
     body |-> StringProperty(0),
     channel |-> StringProperty(0),
     priority |-> StringProperty(0),
     customer_id |-> StringProperty(0)]

\* One property's keywords applied to a value that is present.
ValidatesProperty(value, prop) ==
    /\ value.type = prop.type
    /\ prop.type = "string" => value.n >= prop.minLength
    /\ prop.enum # {} => value.n \in prop.enum

\* Mutant of ValidTicketEvent: "required" is not applied.
ValidTicketEvent_NoRequired(obj) ==
    \A k \in DOMAIN TICKET_EVENT_PROPERTIES :
        obj[k].type # "missing" => ValidatesProperty(obj[k], TICKET_EVENT_PROPERTIES[k])

\* validate(instance=ticket, schema=TICKET_EVENT_SCHEMA) raises nothing.
\* additionalProperties is True: a key outside "properties" is not looked at.
ValidTicketEvent(obj) ==
    /\ \A k \in TICKET_EVENT_REQUIRED : obj[k].type # "missing"
    /\ \A k \in DOMAIN TICKET_EVENT_PROPERTIES :
        obj[k].type # "missing" => ValidatesProperty(obj[k], TICKET_EVENT_PROPERTIES[k])

\* The event of test_ticket_event_contract_valid.
ValidTicket ==
    [schema_version |-> TInt(TICKET_EVENT_SCHEMA_VERSION), event_id |-> TStr(12),
     ticket_id |-> TStr(3), ts |-> TStr(20), subject |-> TStr(11),
     body |-> TStr(16), channel |-> TStr(5), priority |-> TStr(4),
     customer_id |-> TMissing, unknown |-> TMissing]

PlainKeys == {"ts", "subject", "body", "channel", "priority"}

\* The JSON objects a message of TOPIC_IN can decode to: at most one of the
\* five plain keys is missing or no string, the other keys vary freely;
\* "unknown" is a key the schema does not name.
TicketObjects ==
    {[o EXCEPT !.schema_version = sv, !.event_id = e, !.ticket_id = t,
               !.customer_id = c, !.unknown = u] :
        o \in {ValidTicket} \cup
              {[ValidTicket EXCEPT ![k] = v] : k \in PlainKeys, v \in {TMissing, TInt(5)}},
        sv \in {TInt(1), TInt(2), TStr(1), TBool, TMissing},
        e \in {TStr(12), TStr(8), TStr(7), TInt(12345678), TMissing},
        t \in {TStr(3), TStr(1), TStr(0), TMissing},
        c \in {TMissing, TStr(4), TNull},
        u \in {TMissing, TStr(5)}}

InitTicket ==
    /\ members = {}
    /\ faults = 0
    /\ norm = NormIdle
    /\ InitStore
    /\ call \in {[fn |-> "ticket", stage |-> "polled", ticket |-> o,
                  err |-> "none", retrieved |-> FALSE, llm_called |-> FALSE,
                  row_status |-> "absent", dlq_calls |-> 0] : o \in TicketObjects}

\* Lines 307-308.
ValidateTicket ==
    /\ call.fn = "ticket"
    /\ call.stage = "polled"
    /\ IF ValidTicketEvent(call.ticket)
       THEN call' = [call EXCEPT !.stage = "validated"]
       ELSE call' = [call EXCEPT !.stage = "except", !.err = "ValidationError"]
    /\ UNCHANGED nonCallVars

\* Lines 315-324 for an event_id that is not in processed_events.
RetrieveAndCall ==
    /\ call.fn = "ticket"
    /\ call.stage = "validated"
    /\ call' = [call EXCEPT !.stage = "called", !.retrieved = TRUE,
                            !.llm_called = TRUE]
    /\ UNCHANGED nonCallVars

\* Lines 327-367.
UpsertEnriched ==
    /\ call.fn = "ticket"
    /\ call.stage = "called"
    /\ call' = [call EXCEPT !.stage = "committed", !.row_status = "enriched"]
    /\ UNCHANGED nonCallVars

\* Lines 383-388: the first except arm; _mark_failed finds no row to update.
ExceptDlq ==
    /\ call.fn = "ticket"
    /\ call.stage = "except"
    /\ call' = [call EXCEPT !.stage = "dlq", !.dlq_calls = @ + 1]
    /\ UNCHANGED nonCallVars

NextTicket ==
    \/ ValidateTicket
    \/ RetrieveAndCall
    \/ UpsertEnriched
    \/ ExceptDlq

SpecTicket == InitTicket /\ [][NextTicket]_vars

\* The defects of a ticket object the claim lists.
LacksRequired(obj) == \E k \in TICKET_EVENT_REQUIRED : obj[k] = TMissing
WrongVersion(obj) == obj.schema_version # TInt(1)
ShortEventId(obj) == obj.event_id.type = "string" /\ obj.event_id.n < 8
EmptyTicketId(obj) == obj.ticket_id = TStr(0)

\* Every key the schema names holds what the schema asks for.
Conforms(obj) ==
    /\ obj.schema_version = TInt(1)
    /\ obj.event_id.type = "string" /\ obj.event_id.n >= 8
    /\ obj.ticket_id.type = "string" /\ obj.ticket_id.n >= 1
    /\ \A k \in PlainKeys : obj[k].type = "string"
    /\ obj.customer_id.type \in {"missing", "string"}

\* C27: a ticket event that lacks schema_version or another required key,
\* has a schema_version other than 1, an event_id of fewer than 8 characters
\* or an empty ticket_id fails validation, goes to the except arm that calls
\* dlq, and is never retrieved for, sent to the LLM or written as enriched;
\* a key the schema does not name never makes an event fail.
C27_InvalidTicketGoesToDlq ==
    call.fn = "ticket" =>
        /\ (\/ LacksRequired(call.ticket) \/ WrongVersion(call.ticket)
            \/ ShortEventId(call.ticket) \/ EmptyTicketId(call.ticket)) =>
              /\ call.stage \in {"polled", "except", "dlq"}
              /\ ~call.retrieved
              /\ ~call.llm_called
              /\ call.row_status # "enriched"
              /\ call.stage = "dlq" => call.dlq_calls = 1
        /\ (Conforms(call.ticket) /\ call.ticket.unknown # TMissing) =>
              call.stage \notin {"except", "dlq"}

\* An event whose only defect is the missing schema_version, with a key the
\* schema does not name, has been sent to the DLQ.
C27_Witness ==
    /\ call.fn = "ticket"
    /\ call.stage = "dlq"
    /\ call.ticket = [ValidTicket EXCEPT !.schema_version = TMissing,
                                         !.unknown = TStr(5)]

\* ================================== _format_kb_context, lines 143-161
\* Largest character budget tried.
MaxChars == 20

\* A chunk by the lengths of its stripped title, heading_path and content
\* (0: the column is NULL or empty).
ContextChunks ==
    [title : {0, 1}, heading_path : {0, 2}, content : {0, 3}]

\* Lines 149-151: len(block); "Untitled" has 8 characters, " | " three, and
\* strip() removes the blank after the bar and the newline before an empty
\* content.
BlockLen(chunk) ==
    LET title == IF chunk.title = 0 THEN 8 ELSE chunk.title
        header == IF chunk.heading_path = 0
                  THEN title + 2
                  ELSE title + 3 + chunk.heading_path
    IN IF chunk.content = 0 THEN header ELSE header + 1 + chunk.content

\* Mutant of FormatFrom: the running total forgets the separators.
RECURSIVE FormatFrom_NoSeparator(_, _, _, _, _)
FormatFrom_NoSeparator(chunks, i, parts, total, max_chars) ==
    IF i > Len(chunks) THEN parts
    ELSE LET block == BlockLen(chunks[i])
             remaining == max_chars - total
         IN IF total + block > max_chars
            THEN IF remaining > 0
                 THEN Append(parts, Min(block, remaining))
                 ELSE parts
            ELSE FormatFrom_NoSeparator(chunks, i + 1, Append(parts, block),
                                        total + block, max_chars)

\* The loop of lines 148-160; parts holds the lengths of the appended parts.
RECURSIVE FormatFrom(_, _, _, _, _)
FormatFrom(chunks, i, parts, total, max_chars) ==
    IF i > Len(chunks) THEN parts
    ELSE LET block == BlockLen(chunks[i])
             remaining == max_chars - total
         IN IF block = 0
            THEN FormatFrom(chunks, i + 1, parts, total, max_chars)
            ELSE IF total + block + 2 > max_chars
                 THEN IF remaining > 0
                      THEN Append(parts, Min(block, remaining))
                      ELSE parts
                 ELSE FormatFrom(chunks, i + 1, Append(parts, block),
                                 total + block + 2, max_chars)

\* _format_kb_context(chunks, max_chars): the parts that are joined.
FormatKbContext(chunks, max_chars) ==
    IF chunks = <<>> THEN <<>> ELSE FormatFrom(chunks, 1, <<>>, 0, max_chars)

RECURSIVE SumSeq(_)
SumSeq(s) == IF s = <<>> THEN 0 ELSE Head(s) + SumSeq(Tail(s))

\* len("\n\n".join(parts))
JoinLen(parts) ==
    IF parts = <<>> THEN 0 ELSE SumSeq(parts) + 2 * (Len(parts) - 1)

InitContext ==
    /\ members = {}
    /\ faults = 0
    /\ norm = NormIdle
    /\ InitStore
    /\ call \in {[fn |-> "format", stage |-> "chunks", chunks |-> c,
                  max_chars |-> b, parts |-> <<>>, kb_context |-> 0] :
                 c \in UNION {[1..n -> ContextChunks] : n \in 0..MaxChunks},
                 b \in 0..MaxChars}

\* The loop of lines 146-160.
FormatParts ==
    /\ call.fn = "format"
    /\ call.stage = "chunks"
    /\ call' = [call EXCEPT !.stage = "parts",
                            !.parts = FormatKbContext(call.chunks, call.max_chars)]
    /\ UNCHANGED nonCallVars

\* Line 161.
JoinParts ==
    /\ call.fn = "format"
    /\ call.stage = "parts"
    /\ call' = [call EXCEPT !.stage = "context", !.kb_context = JoinLen(call.parts)]
    /\ UNCHANGED nonCallVars

NextContext ==
    \/ FormatParts
    \/ JoinParts

SpecContext == InitContext /\ [][NextContext]_vars

\* The length of the first j blocks of the call, joined in full.
FullLen(j) == JoinLen([i \in 1..j |-> BlockLen(call.chunks[i])])

\* C28: the context is never longer than max_chars (max_chars >= 0); at the
\* first chunk whose full block would take the joined text over the budget,
\* the blocks before it are in the context in full, that block is cut to
\* the characters left after the separator (left out when none is left),
\* and no later chunk contributes.
C28_ContextWithinBudget ==
    (call.fn = "format" /\ call.stage = "context") =>
        /\ call.kb_context <= call.max_chars
        /\ \A j \in DOMAIN call.chunks :
              (FullLen(j) > call.max_chars /\ (j = 1 \/ FullLen(j - 1) <= call.max_chars)) =>
                  LET left == call.max_chars - (IF j = 1 THEN 0 ELSE FullLen(j - 1) + 2)
                  IN call.parts =
                        [i \in 1..(j - 1) |-> BlockLen(call.chunks[i])]
                        \o (IF left > 0 THEN <<left>> ELSE <<>>)

\* Of three chunks the first is in the context in full, the second is cut
\* and the third does not contribute.
C28_Witness ==
    /\ call.fn = "format"
    /\ call.stage = "context"
    /\ Len(call.chunks) = 3
    /\ Len(call.parts) = 2
    /\ call.parts[1] = BlockLen(call.chunks[1])
    /\ call.parts[2] < BlockLen(call.chunks[2])
    /\ call.kb_context = call.max_chars

\* ---------------------------------------------------------------------------
\* call_claude, lines 205-215: the reply text is stripped, a leading ```json
\* or ``` fence and a trailing ``` fence are removed, the rest is stripped
\* again and parsed.  A text is a sequence of characters.
\* ---------------------------------------------------------------------------

Whitespace == {" ", "\n"}

\* The double quote and the backtick, each written as one token.
Quote == "dquote"

Backtick == "backtick"

Fence == <<Backtick, Backtick, Backtick>>

JsonFence == Fence \o <<"j", "s", "o", "n">>

\* str.strip(): the whitespace at both ends is removed.
RECURSIVE LStrip(_)
LStrip(s) ==
    IF s # <<>> /\ Head(s) \in Whitespace THEN LStrip(Tail(s)) ELSE s

RECURSIVE RStrip(_)
RStrip(s) ==
    IF s # <<>> /\ s[Len(s)] \in Whitespace
    THEN RStrip(SubSeq(s, 1, Len(s) - 1))
    ELSE s

Strip(s) == RStrip(LStrip(s))

StartsWith(s, prefix) ==
    Len(s) >= Len(prefix) /\ SubSeq(s, 1, Len(prefix)) = prefix

EndsWith(s, suffix) ==
    Len(s) >= Len(suffix) /\ SubSeq(s, Len(s) - Len(suffix) + 1, Len(s)) = suffix

\* Mutant of RemoveLeadingFence: the plain fence is tested first.
RemoveLeadingFence_PlainFirst(text) ==
    IF StartsWith(text, Fence) THEN SubSeq(text, 4, Len(text))
    ELSE IF StartsWith(text, JsonFence) THEN SubSeq(text, 8, Len(text))
    ELSE text

\* Lines 207-210: text[7:] after ```json, else text[3:] after ```.
RemoveLeadingFence(text) ==
    IF StartsWith(text, JsonFence) THEN SubSeq(text, 8, Len(text))
    ELSE IF StartsWith(text, Fence) THEN SubSeq(text, 4, Len(text))
    ELSE text

\* Lines 211-212: text[:-3] when the text ends with ```.
RemoveTrailingFence(text) ==
    IF EndsWith(text, Fence) THEN SubSeq(text, 1, Len(text) - 3) ELSE text

JSONDecodeError == [ok |-> FALSE, type |-> "JSONDecodeError", text |-> <<>>]

Parsed(type, text) == [ok |-> TRUE, type |-> type, text |-> text]

IsNumber(s) == s # <<>> /\ \A i \in 1..Len(s) : s[i] = "1"

IsString(s) ==
    /\ Len(s) >= 2
    /\ s[1] = Quote /\ s[Len(s)] = Quote
    /\ \A i \in 2..(Len(s) - 1) : s[i] # Quote

Inner(s) == SubSeq(s, 2, Len(s) - 1)

\* json.loads on the grammar of the texts drawn here: a number of digits 1,
\* a string without escapes, an empty object, a list of at most one scalar;
\* whitespace is allowed around a value and inside brackets.
JsonLoads(text) ==
    LET s == Strip(text)
    IN IF IsNumber(s) THEN Parsed("number", s)
       ELSE IF IsString(s) THEN Parsed("string", Inner(s))
       ELSE IF Len(s) >= 2 /\ s[1] = "{" /\ s[Len(s)] = "}"
               /\ Strip(Inner(s)) = <<>>
            THEN Parsed("object", <<>>)
       ELSE IF Len(s) >= 2 /\ s[1] = "[" /\ s[Len(s)] = "]"
               /\ LET e == Strip(Inner(s))
                  IN e = <<>> \/ IsNumber(e) \/ IsString(e)
            THEN Parsed("list", Strip(Inner(s)))
       ELSE JSONDecodeError

\* call_claude from the reply text on, as one function.
ParseReply(text) ==
    JsonLoads(Strip(RemoveTrailingFence(RemoveLeadingFence(Strip(text)))))

ReplyBodies ==
    { <<"{", "}">>,
      <<"{", " ", "}">>,
      <<"1">>,
      <<"1", "1">>,
      <<"[", "1", "]">>,
      <<"[", "]">>,
      <<Quote, "j", "s", "o", "n", Quote>>,
      <<Quote, Backtick, Backtick, Backtick, Quote>>,
      <<"[", Quote, Backtick, Backtick, Backtick, Quote, "]">>,
      <<"j", "s", "o", "n">>,
      <<"{">>,
      <<>> }

Paddings == { <<>>, <<" ">>, <<"\n">> }

Wrappers == {"none", "json", "plain"}

\* The reply the model sends for text t under a wrapper; sep is what stands
\* between a fence and t.
Wrap(t, wrapper, sep) ==
    IF wrapper = "json" THEN JsonFence \o sep \o t \o sep \o Fence
    ELSE IF wrapper = "plain" THEN Fence \o sep \o t \o sep \o Fence
    ELSE t

InitFence ==
    /\ \E body \in ReplyBodies, lead \in Paddings, trail \in Paddings,
          wrapper \in Wrappers, sep \in {<<>>, <<"\n">>}, outer \in Paddings :
          /\ wrapper = "none" => sep = <<>> /\ outer = <<>>
          /\ call = [fn |-> "call_claude", stage |-> "reply",
                     t |-> lead \o body \o trail, wrapper |-> wrapper,
                     text |-> outer \o Wrap(lead \o body \o trail, wrapper, sep)
                                    \o outer,
                     result |-> JSONDecodeError]
    /\ members = {}
    /\ faults = 0
    /\ norm = NormIdle
    /\ InitStore

\* Line 206.
StripReply ==
    /\ call.fn = "call_claude" /\ call.stage = "reply"
    /\ call' = [call EXCEPT !.stage = "stripped", !.text = Strip(@)]
    /\ UNCHANGED nonCallVars

\* Lines 207-213.
RemoveFences ==
    /\ call.fn = "call_claude" /\ call.stage = "stripped"
    /\ call' = [call EXCEPT !.stage = "unfenced",
                   !.text = Strip(RemoveTrailingFence(RemoveLeadingFence(@)))]
    /\ UNCHANGED nonCallVars

\* Line 215.
LoadsReply ==
    /\ call.fn = "call_claude" /\ call.stage = "unfenced"
    /\ call' = [call EXCEPT !.stage = "returned", !.result = JsonLoads(call.text)]
    /\ UNCHANGED nonCallVars

NextFence == StripReply \/ RemoveFences \/ LoadsReply

SpecFence == InitFence /\ [][NextFence]_vars

\* C29: for every text t that parses as JSON, call_claude returns for t in
\* ```json ... ``` fences and for t in plain ``` ... ``` fences the object it
\* returns for t unfenced.
C29_FencesDoNotChangeTheObject ==
    (call.fn = "call_claude" /\ call.stage = "returned"
        /\ JsonLoads(call.t).ok)
    => /\ call.result = ParseReply(call.t)
       /\ call.result = JsonLoads(call.t)

C29_Witness ==
    /\ call.fn = "call_claude" /\ call.stage = "returned"
    /\ call.wrapper = "json"
    /\ call.result = Parsed("list", <<Quote, Backtick, Backtick, Backtick, Quote>>)

\* ---------------------------------------------------------------------------
\* dlq(producer, msg, err), lines 94-110.  The bytes of a message are a
\* sequence of byte tokens: 61 is the letter a, C3 A9 is the two-byte encoding
\* of e-acute, a lone C3 or A9 and FF are not UTF-8.
\* ---------------------------------------------------------------------------

MaxBytes == 2

Bytes == {"61", "C3", "A9", "FF"}

Replacement == "U+FFFD"

MessageValues ==
    {[present |-> FALSE, bytes |-> <<>>]}
    \cup {[present |-> TRUE, bytes |-> b] :
            b \in UNION {[1..n -> Bytes] : n \in 0..MaxBytes}}

\* bytes.decode("utf-8", errors="replace"): every byte that does not begin a
\* complete encoding becomes one U+FFFD and decoding resumes at the next byte.
RECURSIVE Utf8DecodeReplace(_)
Utf8DecodeReplace(b) ==
    IF b = <<>> THEN <<>>
    ELSE IF Head(b) = "61" THEN <<"a">> \o Utf8DecodeReplace(Tail(b))
    ELSE IF Head(b) = "C3" /\ Len(b) >= 2 /\ b[2] = "A9"
         THEN <<"e_acute">> \o Utf8DecodeReplace(Tail(Tail(b)))
    ELSE <<Replacement>> \o Utf8DecodeReplace(Tail(b))

RECURSIVE ValidUtf8(_)
ValidUtf8(b) ==
    \/ b = <<>>
    \/ Head(b) = "61" /\ ValidUtf8(Tail(b))
    \/ Len(b) >= 2 /\ b[1] = "C3" /\ b[2] = "A9" /\ ValidUtf8(Tail(Tail(b)))

NullPayload == [null |-> TRUE, text |-> <<>>]

\* Mutant of PayloadStr: a strict decode whose error is swallowed.
PayloadStr_Strict(payload) ==
    IF ~payload.present \/ payload.bytes = <<>> \/ ~ValidUtf8(payload.bytes)
    THEN NullPayload
    ELSE [null |-> FALSE, text |-> Utf8DecodeReplace(payload.bytes)]

\* Lines 95-99: a payload that is None or empty is falsy and gives None.
PayloadStr(payload) ==
    IF ~payload.present \/ payload.bytes = <<>>
    THEN NullPayload
    ELSE [null |-> FALSE, text |-> Utf8DecodeReplace(payload.bytes)]

InitDlq ==
    /\ members = {}
    /\ faults = 0
    /\ norm = NormIdle
    /\ InitStore
    /\ call \in {[fn |-> "dlq", stage |-> "called",
                  msg |-> [topic |-> "support.tickets.v1", partition |-> p,
                           offset |-> o, value |-> v],
                  err |-> e, now |-> t, payload_str |-> NullPayload,
                  produced |-> <<>>, flushes |-> 0, delivered |-> FALSE] :
                 p \in 0..1, o \in 0..1, v \in MessageValues,
                 e \in {"schema error", "unexpected: boom"}, t \in 1..2}

\* Lines 95-99.
DecodePayload ==
    /\ call.fn = "dlq" /\ call.stage = "called"
    /\ call' = [call EXCEPT !.stage = "decoded",
                            !.payload_str = PayloadStr(call.msg.value)]
    /\ UNCHANGED nonCallVars

\* Lines 101-109: the record is built and handed to producer.produce, which
\* queues it or raises (a full queue, a closed producer).
ProduceRecord ==
    /\ call.fn = "dlq" /\ call.stage = "decoded"
    /\ \/ call' = [call EXCEPT !.stage = "produced",
                      !.produced = Append(@,
                          [topic |-> "TOPIC_DLQ",
                           value |-> [failed_topic |-> call.msg.topic,
                                      partition |-> call.msg.partition,
                                      offset |-> call.msg.offset,
                                      error |-> call.err,
                                      payload |-> call.payload_str,
                                      ts |-> call.now]])]
       \/ call' = [call EXCEPT !.stage = "raised"]
    /\ UNCHANGED nonCallVars

\* Line 110: flush(5) returns after delivery or after five seconds, and its
\* return value is dropped.
FlushProducer ==
    /\ call.fn = "dlq" /\ call.stage = "produced"
    /\ \E d \in BOOLEAN :
          call' = [call EXCEPT !.stage = "returned", !.flushes = @ + 1,
                               !.delivered = d]
    /\ UNCHANGED nonCallVars

NextDlq == DecodePayload \/ ProduceRecord \/ FlushProducer

SpecDlq == InitDlq /\ [][NextDlq]_vars

\* The bytes a decoded text stands for.
RECURSIVE Utf8Encode(_)
Utf8Encode(text) ==
    IF text = <<>> THEN <<>>
    ELSE (IF Head(text) = "a" THEN <<"61">>
          ELSE IF Head(text) = "e_acute" THEN <<"C3", "A9">>
          ELSE <<"EF", "BF", "BD">>) \o Utf8Encode(Tail(text))

\* A text is the decoding with replacement of bytes b: bytes that are UTF-8
\* are read back exactly, anything else shows at least one U+FFFD, and no
\* byte is dropped or invented (a text is never longer than its bytes).
DecodedWithReplacement(text, b) ==
    /\ ValidUtf8(b) => Utf8Encode(text) = b
    /\ ~ValidUtf8(b) => \E i \in 1..Len(text) : text[i] = Replacement
    /\ Len(text) <= Len(b) /\ Len(text) >= 1

\* C30: when dlq returns it has handed the producer exactly one record, for
\* the DLQ topic, carrying the failed message's topic, partition and offset,
\* the given error text, the payload decoded as UTF-8 with replacement
\* characters (null when the message has no payload or an empty one) and a
\* ts, and it has flushed the producer once, after producing.
C30_DlqRecord ==
    call.fn = "dlq"
    => /\ Len(call.produced) <= 1
       /\ call.flushes = (IF call.stage = "returned" THEN 1 ELSE 0)
       /\ call.stage = "returned"
          => /\ Len(call.produced) = 1
             /\ call.produced[1].topic = "TOPIC_DLQ"
             /\ LET rec == call.produced[1].value
                    v == call.msg.value
                IN /\ rec.failed_topic = call.msg.topic
                   /\ rec.partition = call.msg.partition
                   /\ rec.offset = call.msg.offset
                   /\ rec.error = call.err
                   /\ rec.ts = call.now
                   /\ rec.payload.null = (~v.present \/ v.bytes = <<>>)
                   /\ ~rec.payload.null
                      => DecodedWithReplacement(rec.payload.text, v.bytes)

C30_Witness ==
    /\ call.fn = "dlq" /\ call.stage = "returned"
    /\ call.msg.value.bytes = <<"61", "FF">>
    /\ call.produced[1].value.payload.text = <<"a", Replacement>>
    /\ call.flushes = 1

\* ---------------------------------------------------------------------------
\* _chunk_text(text, chunk_size, overlap), lines 228-329 of api/app.py.  A
\* text is given by its lines (what text.splitlines() returns), a line by its
\* characters.
\* ---------------------------------------------------------------------------

MaxLines == 3

MaxChunkSize == 6

MaxOverlap == 2

ChunkLines ==
    { <<>>,
      <<"a">>,
      <<" ", "a">>,
      <<"a", "b", " ", "a">>,
      <<"#">>,
      <<"#", "b">>,
      <<"#", " ", "a">>,
      <<"#", "#", " ", "b">> }

\* len(stripped.split()[0]): the length of the first word of the line.
RECURSIVE FirstWordLen(_)
FirstWordLen(s) ==
    IF s = <<>> \/ Head(s) \in Whitespace THEN 0 ELSE 1 + FirstWordLen(Tail(s))

\* stripped.lstrip("#")
RECURSIVE LStripHash(_)
LStripHash(s) ==
    IF s # <<>> /\ Head(s) = "#" THEN LStripHash(Tail(s)) ELSE s

\* sep.join(parts)
RECURSIVE Join(_, _)
Join(parts, sep) ==
    IF parts = <<>> THEN <<>>
    ELSE IF Len(parts) = 1 THEN parts[1]
    ELSE parts[1] \o sep \o Join(Tail(parts), sep)

\* Lines 237-238: " > ".join of the headings on the stack that have a text.
CurrentHeadingPath(heading_stack) ==
    Join(SelectSeq([i \in DOMAIN heading_stack |-> heading_stack[i].text],
                   LAMBDA t : t # <<>>),
         <<" ", ">", " ">>)

\* Lines 240-250: the lines gathered so far become one paragraph.
FlushParagraph(current, heading_stack, paragraphs) ==
    IF current # <<>>
    THEN Append(paragraphs,
                [text |-> Strip(Join(current, <<"\n">>)),
                 heading_path |-> CurrentHeadingPath(heading_stack),
                 is_heading |-> FALSE])
    ELSE paragraphs

\* Lines 258-259: the headings at the same or a deeper level are popped.
RECURSIVE PopHeadings(_, _)
PopHeadings(heading_stack, level) ==
    IF heading_stack # <<>> /\ heading_stack[Len(heading_stack)].level >= level
    THEN PopHeadings(SubSeq(heading_stack, 1, Len(heading_stack) - 1), level)
    ELSE heading_stack

\* The loop of lines 252-273.
RECURSIVE ParagraphsFrom(_, _, _, _, _)
ParagraphsFrom(lines, i, current, heading_stack, paragraphs) ==
    IF i > Len(lines) THEN FlushParagraph(current, heading_stack, paragraphs)
    ELSE LET stripped == Strip(RStrip(lines[i]))
         IN IF stripped # <<>> /\ Head(stripped) = "#"
            THEN LET level == FirstWordLen(stripped)
                     heading_text == Strip(LStripHash(stripped))
                     stack == Append(PopHeadings(heading_stack, level),
                                     [level |-> level, text |-> heading_text])
                 IN ParagraphsFrom(lines, i + 1, <<>>, stack,
                        Append(FlushParagraph(current, heading_stack, paragraphs),
                               [text |-> stripped,
                                heading_path |-> CurrentHeadingPath(stack),
                                is_heading |-> TRUE]))
            ELSE IF stripped = <<>>
            THEN ParagraphsFrom(lines, i + 1, <<>>, heading_stack,
                     FlushParagraph(current, heading_stack, paragraphs))
            ELSE ParagraphsFrom(lines, i + 1, Append(current, stripped),
                                heading_stack, paragraphs)

\* Lines 279-286; paras names the paragraphs the value was built from.
PushChunk(chunks, value, heading_path, paras) ==
    IF Strip(value) # <<>>
    THEN Append(chunks, [content |-> Strip(value),
                         heading_path |-> heading_path, paras |-> paras])
    ELSE chunks

\* Mutant of NextStart: no trailing context is carried over.
NextStart_NoOverlap(end, overlap) == end

\* Lines 306-308.
NextStart(end, overlap) == IF end - overlap < 0 THEN 0 ELSE end - overlap

\* The while loop of lines 303-311: the windows [start, end) of a paragraph.
RECURSIVE WindowsFrom(_, _, _, _, _)
WindowsFrom(length, start, chunk_size, overlap, acc) ==
    IF ~(start < length) THEN acc
    ELSE LET end == Min(start + chunk_size, length)
             next == Append(acc, [start |-> start, end |-> end])
         IN IF end = length THEN next
            ELSE WindowsFrom(length, NextStart(end, overlap), chunk_size,
                             overlap, next)

\* push_chunk(text_block[start:end], heading_path) for every window.
RECURSIVE PushWindows(_, _, _, _, _, _)
PushWindows(chunks, text_block, heading_path, para, windows, k) ==
    IF k > Len(windows) THEN chunks
    ELSE PushWindows(
             PushChunk(chunks,
                       SubSeq(text_block, windows[k].start + 1, windows[k].end),
                       heading_path, {para}),
             text_block, heading_path, para, windows, k + 1)

\* Mutant of Fits: the separator is not counted.
Fits_NoSeparator(buf, text_block, chunk_size) ==
    Len(buf) + Len(text_block) <= chunk_size

\* Lines 318-319: candidate = f"{buf}\n\n{text_block}" fits the chunk size.
Fits(buf, text_block, chunk_size) ==
    Len(buf \o <<"\n", "\n">> \o text_block) <= chunk_size

\* Line 292: the test that flushes the buffer before a paragraph of another
\* heading path.
HeadingChanged(buf, buf_heading, heading_path) ==
    /\ buf # <<>>
    /\ heading_path # <<>>
    /\ buf_heading # <<>>
    /\ heading_path # buf_heading

\* push_chunk(buf, buf_heading); buf = ""; buf_heading = "".
FlushBuf(st) ==
    [st EXCEPT !.chunks = PushChunk(st.chunks, st.buf, st.buf_heading,
                                    st.buf_paras),
               !.buf = <<>>, !.buf_heading = <<>>, !.buf_paras = {}]

\* One pass of the loop of lines 288-324, for paragraph i.
ChunkParagraph(st, para, i, chunk_size, overlap) ==
    LET heading_path == para.heading_path
        text_block == para.text
        s1 == IF HeadingChanged(st.buf, st.buf_heading, heading_path)
              THEN FlushBuf(st) ELSE st
    IN IF Len(text_block) >= chunk_size
       THEN LET s2 == IF s1.buf # <<>> THEN FlushBuf(s1) ELSE s1
                w == WindowsFrom(Len(text_block), 0, chunk_size, overlap, <<>>)
            IN [s2 EXCEPT
                  !.chunks = PushWindows(s2.chunks, text_block, heading_path,
                                         i, w, 1),
                  !.windows = @ \o [k \in DOMAIN w |->
                                       [para |-> i, start |-> w[k].start,
                                        end |-> w[k].end]]]
       ELSE IF s1.buf = <<>>
       THEN [s1 EXCEPT !.buf = text_block, !.buf_heading = heading_path,
                       !.buf_paras = {i}]
       ELSE IF Fits(s1.buf, text_block, chunk_size)
       THEN [s1 EXCEPT !.buf = @ \o <<"\n", "\n">> \o text_block,
                       !.buf_paras = @ \cup {i}]
       ELSE [FlushBuf(s1) EXCEPT !.buf = text_block,
                                 !.buf_heading = heading_path,
                                 !.buf_paras = {i}]

RECURSIVE ChunksFrom(_, _, _, _, _)
ChunksFrom(paragraphs, i, st, chunk_size, overlap) ==
    IF i > Len(paragraphs)
    THEN IF st.buf # <<>> THEN FlushBuf(st) ELSE st
    ELSE ChunksFrom(paragraphs, i + 1,
                    ChunkParagraph(st, paragraphs[i], i, chunk_size, overlap),
                    chunk_size, overlap)

\* Lines 275-329: the chunks of the paragraphs, with the windows that were cut.
ChunkParagraphs(paragraphs, chunk_size, overlap) ==
    ChunksFrom(paragraphs, 1,
               [buf |-> <<>>, buf_heading |-> <<>>, buf_paras |-> {},
                chunks |-> <<>>, windows |-> <<>>],
               chunk_size, overlap)

InitChunk ==
    /\ members = {}
    /\ faults = 0
    /\ norm = NormIdle
    /\ InitStore
    /\ call \in {[fn |-> "_chunk_text", stage |-> "called", lines |-> l,
                  chunk_size |-> s, overlap |-> o, paragraphs |-> <<>>,
                  chunks |-> <<>>, windows |-> <<>>] :
                 l \in UNION {[1..n -> ChunkLines] : n \in 0..MaxLines},
                 s \in 0..MaxChunkSize, o \in 0..MaxOverlap}

\* Lines 229-230.
RaiseValueError ==
    /\ call.fn = "_chunk_text" /\ call.stage = "called"
    /\ call.chunk_size <= call.overlap
    /\ call' = [call EXCEPT !.stage = "ValueError"]
    /\ UNCHANGED nonCallVars

\* Lines 232-273.
SplitParagraphs ==
    /\ call.fn = "_chunk_text" /\ call.stage = "called"
    /\ ~(call.chunk_size <= call.overlap)
    /\ call' = [call EXCEPT !.stage = "paragraphs",
                   !.paragraphs = ParagraphsFrom(call.lines, 1, <<>>, <<>>, <<>>)]
    /\ UNCHANGED nonCallVars

\* Lines 275-329.
BuildChunks ==
    /\ call.fn = "_chunk_text" /\ call.stage = "paragraphs"
    /\ LET st == ChunkParagraphs(call.paragraphs, call.chunk_size, call.overlap)
       IN call' = [call EXCEPT !.stage = "returned", !.chunks = st.chunks,
                                !.windows = st.windows]
    /\ UNCHANGED nonCallVars

NextChunk == RaiseValueError \/ SplitParagraphs \/ BuildChunks

SpecChunk == InitChunk /\ [][NextChunk]_vars

\* C31: with chunk_size > overlap >= 0, no chunk the chunker returns is
\* longer than chunk_size, be it concatenated paragraphs, a heading line or a
\* slice of a long paragraph.
C31_ChunkWithinSize ==
    (call.fn = "_chunk_text" /\ call.stage = "returned")
    => \A k \in DOMAIN call.chunks :
           /\ Len(call.chunks[k].content) <= call.chunk_size
           /\ Len(call.chunks[k].content) >= 1

\* Two paragraphs were joined into a chunk of exactly chunk_size characters,
\* next to a heading line and to slices of a long paragraph.
C31_Witness ==
    /\ call.fn = "_chunk_text" /\ call.stage = "returned"
    /\ \E k \in DOMAIN call.chunks :
          /\ Cardinality(call.chunks[k].paras) = 2
          /\ Len(call.chunks[k].content) = call.chunk_size
    /\ \E k \in DOMAIN call.chunks, p \in DOMAIN call.paragraphs :
          call.chunks[k].paras = {p} /\ call.paragraphs[p].is_heading
    /\ call.windows # <<>>

\* C36: no chunk holds paragraphs of different heading paths: a paragraph
\* whose heading path differs from that of the buffered text, an empty path
\* included, is never joined to the buffer.
C36_OneHeadingPathPerChunk ==
    (call.fn = "_chunk_text" /\ call.stage = "returned")
    => \A k \in DOMAIN call.chunks :
           \A p, q \in call.chunks[k].paras :
               call.paragraphs[p].heading_path = call.paragraphs[q].heading_path

\* The windows cut from paragraph p, in the order they were cut.
WindowsOf(p) == SelectSeq(call.windows, LAMBDA w : w.para = p)

\* C40: _chunk_text raises ValueError and returns nothing when
\* chunk_size <= overlap; otherwise it returns, and the windows cut from a
\* long paragraph start at 0, each later one starts strictly after the one
\* before and exactly overlap characters before its end, none starts at or
\* past the end of the paragraph, and the last one ends with the paragraph.
C40_WindowsAdvance ==
    call.fn = "_chunk_text"
    => /\ call.chunk_size <= call.overlap
          => (call.stage \in {"called", "ValueError"} /\ call.chunks = <<>>)
       /\ call.stage = "ValueError" => call.chunk_size <= call.overlap
       /\ call.stage = "returned"
          => \A p \in DOMAIN call.paragraphs :
                LET w == WindowsOf(p)
                    length == Len(call.paragraphs[p].text)
                IN /\ (w # <<>>) = (length >= call.chunk_size)
                   /\ w # <<>>
                      => /\ w[1].start = 0
                         /\ w[Len(w)].end = length
                         /\ Len(w) <= length
                   /\ \A k \in DOMAIN w :
                         /\ w[k].start < length
                         /\ w[k].end = Min(w[k].start + call.chunk_size, length)
                   /\ \A k \in 1..(Len(w) - 1) :
                         /\ w[k + 1].start > w[k].start
                         /\ w[k + 1].start = w[k].end - call.overlap

\* A paragraph was cut into three windows that share one character each.
C40_Witness ==
    /\ call.fn = "_chunk_text" /\ call.stage = "returned"
    /\ call.overlap = 1
    /\ \E p \in DOMAIN call.paragraphs : Len(WindowsOf(p)) = 3

\* ---------------------------------------------------------------------------
\* _normalize_category(value) on its own, lines 243-265 of enricher/app.py,
\* over every text of up to MaxCategoryWords words of the vocabulary below.
\* ---------------------------------------------------------------------------

MaxCategoryWords == 2

CategoryWords ==
    CATEGORY_ENUM \cup
    {"invoice", "refund", "refunds", "charge", "security", "breach", "incident",
     "refresh", "data", "export", "feature", "roadmap", "oauth", "api", "key",
     "alert", "notification", "slack", "login", "password", "account", "access",
     "other"}

\* The values of enriched.get("category") built on a sequence of words: the
\* key is missing, null, the words as they are, the words in upper case
\* with surrounding white space.
CategoryInputs(words) ==
    {JMissing, JNull, JStr(Txt(words)), JStr(Raw(words))}

InitCategory ==
    /\ members = {}
    /\ faults = 0
    /\ norm = NormIdle
    /\ InitStore
    /\ \E n \in 0..MaxCategoryWords : \E words \in [1..n -> CategoryWords] :
       \E x \in CategoryInputs(words) :
          call = [fn |-> "_normalize_category", stage |-> "called",
                  value |-> x, result |-> ""]

\* Lines 244-245.
ReturnGeneral ==
    /\ call.fn = "_normalize_category" /\ call.stage = "called"
    /\ ~Truthy(call.value)
    /\ call' = [call EXCEPT !.stage = "returned",
                            !.result = NormalizeCategory(call.value)]
    /\ UNCHANGED nonCallVars

\* Lines 246-265.
ReturnCategory ==
    /\ call.fn = "_normalize_category" /\ call.stage = "called"
    /\ Truthy(call.value)
    /\ call' = [call EXCEPT !.stage = "returned",
                            !.result = NormalizeCategory(call.value)]
    /\ UNCHANGED nonCallVars

NextCategory == ReturnGeneral \/ ReturnCategory

SpecCategory == InitCategory /\ [][NextCategory]_vars

\* The keyword table as the rows of the claim, in their order.
KeywordRows ==
    << [keywords |-> {"billing", "invoice", "refund", "charge"},
        category |-> "billing"],
       [keywords |-> {"security", "breach", "incident"},
        category |-> "security_incident"],
       [keywords |-> {"refresh"}, category |-> "data_refresh"],
       [keywords |-> {"export"}, category |-> "exports"],
       [keywords |-> {"feature", "roadmap"}, category |-> "feature_request"],
       [keywords |-> {"oauth", "api key", "integration"},
        category |-> "integration"],
       [keywords |-> {"alert", "notification", "slack"},
        category |-> "notifications"],
       [keywords |-> {"login", "password", "account", "access"},
        category |-> "account_access"] >>

\* Row r of the table matches the lower-cased words.
RowMatches(words, r) ==
    \E kw \in KeywordRows[r].keywords :
        IF kw = "api key"
        THEN \E i \in 1..(Len(words) - 1) : words[i] = "api" /\ words[i + 1] = "key"
        ELSE \E i \in DOMAIN words : kw \in Substrings(words[i])

\* C34: _normalize_category returns the trimmed, lower-cased value when that
\* is a member of the category enum; otherwise the category of the first row
\* of the keyword table that matches; 'general' when no row matches or the
\* value is empty or missing.
C34_CategoryTable ==
    (call.fn = "_normalize_category" /\ call.stage = "returned")
    => LET words == call.value.text.words
           matching == {r \in DOMAIN KeywordRows : RowMatches(words, r)}
       IN call.result =
            IF call.value.type # "string" \/ words = <<>> THEN "general"
            ELSE IF Len(words) = 1 /\ words[1] \in CATEGORY_ENUM THEN words[1]
            ELSE IF matching = {} THEN "general"
            ELSE KeywordRows[CHOOSE r \in matching :
                                \A q \in matching : r <= q].category

\* " Password EXPORT " holds a keyword of the fourth and of the last row and
\* is no enum member: the fourth row wins.
C34_Witness ==
    /\ call.fn = "_normalize_category" /\ call.stage = "returned"
    /\ call.value = JStr(Raw(<<"password", "export">>))
    /\ call.result = "exports"

\* C38: the event published for the ticket event (e1, t1) carries event_id
\* e1, ticket_id t1 and the schema version of the envelope, whatever keys
\* the object returned by the LLM holds.
C38_EnvelopeNotReplaced ==
    norm.stage = "published"
    => /\ norm.out.event_id = "e1"
       /\ norm.out.ticket_id = "t1"
       /\ norm.out.schema_version = ENRICHED_EVENT_SCHEMA_VERSION

\* ---------------------------------------------------------------------------
\* The request main sends to the LLM for a ticket event: lines 315-324 of
\* main and lines 164-195 of call_claude.  Two events are handled against
\* the same knowledge base, so that their requests can be compared.
\* ---------------------------------------------------------------------------

RequestTickets ==
    [ticket_id : {"t1"}, subject : {"s1", "s2"}, body : {"b1", "b2"},
     channel : {"email"}, priority : {"low", "high"},
     customer_id : {"none", "c1"}, event_id : {"e1", "e2"}, ts : {1, 2},
     other : {"none", "x"}]

\* Line 315: the text that is embedded and searched for.
QueryText(ticket) == <<ticket.subject, ticket.body>>

QueryTexts == {QueryText(t) : t \in RequestTickets}

\* The KB context lines 316-322 build for a query text: embedding, search,
\* rerank and formatting are functions of the query text and of the rows of
\* kb_chunks, here one of two stores.
KbContext(store, query_text) ==
    IF store = "empty" THEN ""
    ELSE IF query_text[1] = "s1" THEN "Doc A | Intro\nrefunds" ELSE "Doc B |\nlogin"

\* Mutant of UserMessage: the whole ticket is serialised.
UserMessage_WholeTicket(ticket) ==
    [ticket_id |-> ticket.ticket_id, subject |-> ticket.subject,
     body |-> ticket.body, channel |-> ticket.channel,
     priority |-> ticket.priority, customer_id |-> ticket.customer_id]

\* Lines 181-187: the user message; keys the message does not hold are
\* shown as "none".
UserMessage(ticket) ==
    [ticket_id |-> ticket.ticket_id, subject |-> ticket.subject,
     body |-> ticket.body, channel |-> ticket.channel,
     priority |-> ticket.priority, customer_id |-> "none"]

\* Lines 166-180 and 190-195: the arguments of client.messages.create.
LlmRequest(ticket, kb_context) ==
    [system |-> kb_context, user |-> UserMessage(ticket)]

InitRequest ==
    /\ members = {}
    /\ faults = 0
    /\ norm = NormIdle
    /\ InitStore
    /\ call \in {[fn |-> "request", stage |-> "validated", a |-> a, b |-> b,
                  store |-> s, kb_a |-> "none", kb_b |-> "none",
                  sent |-> FALSE, req_a |-> LlmRequest(a, ""),
                  req_b |-> LlmRequest(b, "")] :
                 a \in RequestTickets, b \in RequestTickets,
                 s \in {"empty", "two docs"}}

\* Lines 315-322, for each of the two events.
RetrieveContext ==
    /\ call.fn = "request" /\ call.stage = "validated"
    /\ call' = [call EXCEPT !.stage = "retrieved",
                   !.kb_a = KbContext(call.store, QueryText(call.a)),
                   !.kb_b = KbContext(call.store, QueryText(call.b))]
    /\ UNCHANGED nonCallVars

\* Line 324 and call_claude up to client.messages.create.
SendRequest ==
    /\ call.fn = "request" /\ call.stage = "retrieved"
    /\ call' = [call EXCEPT !.stage = "sent", !.sent = TRUE,
                   !.req_a = LlmRequest(call.a, call.kb_a),
                   !.req_b = LlmRequest(call.b, call.kb_b)]
    /\ UNCHANGED nonCallVars

NextRequest == RetrieveContext \/ SendRequest

SpecRequest == InitRequest /\ [][NextRequest]_vars

\* Two events agree on the five keys the prompt is built from.
SamePromptFields(a, b) ==
    /\ a.ticket_id = b.ticket_id
    /\ a.subject = b.subject
    /\ a.body = b.body
    /\ a.channel = b.channel
    /\ a.priority = b.priority

\* C35: two ticket events that agree on ticket_id, subject, body, channel
\* and priority produce the same LLM request, whatever their customer_id,
\* event_id, ts and unknown keys are.
C35_RequestIgnoresOtherFields ==
    (call.fn = "request" /\ call.stage = "sent" /\ SamePromptFields(call.a, call.b))
    => call.req_a = call.req_b

C35_Witness ==
    /\ call.fn = "request" /\ call.stage = "sent"
    /\ SamePromptFields(call.a, call.b)
    /\ call.a.customer_id # call.b.customer_id
    /\ call.a.event_id # call.b.event_id
    /\ call.a.ts # call.b.ts
    /\ call.a.other # call.b.other
    /\ call.req_a.system # ""

\* ---------------------------------------------------------------------------
\* The second except arm of main, lines 390-397, entered by a store error
\* inside the enrichment transaction of a valid ticket event.
\* ---------------------------------------------------------------------------

\* What the transaction has written when the store raises: nothing (the
\* upsert failed), the row (the ledger insert failed), the row and the
\* ledger entry (conn.commit failed).
FailedTxs(m, summary) ==
    LET row == [last_event_id |-> m.event_id, status |-> "enriched",
                summary |-> summary]
    IN {EmptyTx,
        [EmptyTx EXCEPT !.rows[m.ticket_id] = row],
        [EmptyTx EXCEPT !.rows[m.ticket_id] = row, !.events = {m.event_id}]}

\* The rows enriched_tickets can hold for the ticket before the failing
\* transaction: none, or the row of an earlier event.
EarlierRows(m) ==
    {NoRow} \cup
    {[last_event_id |-> e, status |-> s, summary |-> "summary"] :
        e \in EventIds \ {m.event_id}, s \in {"enriched", "failed"}}

\* The store has just raised while c1 handled the first message of its
\* partition; faults counts the failures that follow.
InitStoreError ==
    /\ members = {"c1"}
    /\ faults = 0
    /\ kafkaErrors = 0
    /\ norm = NormIdle
    /\ call = CallIdle
    /\ \E m \in {p \in Payloads : p.kind = "valid"},
          summary \in {"summary", Null} :
          /\ log = [c \in Consumers |-> IF c = "c1" THEN <<m>> ELSE <<>>]
          /\ enriched = [c \in Consumers |-> IF c = "c1" THEN summary ELSE "none"]
          /\ \E w \in FailedTxs(m, summary) :
                tx = [c \in Consumers |-> IF c = "c1" THEN w ELSE EmptyTx]
          /\ \E r \in EarlierRows(m) :
                /\ tickets = [t \in TicketIds |->
                                 IF t = m.ticket_id THEN r ELSE NoRow]
                /\ ledger = IF r.status = "enriched" THEN {r.last_event_id}
                            ELSE {}
    /\ committed = [c \in Consumers |-> 0]
    /\ position = [c \in Consumers |-> IF c = "c1" THEN 2 ELSE 1]
    /\ pc = [c \in Consumers |-> IF c = "c1" THEN "h_rollback" ELSE "idle"]
    /\ offset = [c \in Consumers |-> IF c = "c1" THEN 1 ELSE 0]
    /\ err = [c \in Consumers |-> IF c = "c1" THEN "Exception" ELSE "none"]
    /\ late = [c \in Consumers |-> FALSE]
    /\ outTopic = {}
    /\ dlqTopic = {}
    /\ published = {}
    /\ dlqd = {}
    /\ acked = {}
    /\ upsertCommits = [e \in EventIds |-> 0]

NextStoreError ==
    \/ HandlerRollback("c1")
    \/ HandlerDlq("c1")
    \/ HandlerMarkFailed("c1")
    \/ HandlerCommit("c1")

SpecStoreError == InitStoreError /\ [][NextStoreError]_vars

\* C33: after a store error inside the enrichment transaction, none of the
\* transaction's writes becomes visible (the rollback comes before the
\* status='failed' write, whose commit changes the status only), main goes
\* on to the offset commit, and when the offset is committed a record
\* labelled "unexpected: " is on the DLQ topic for the message.
C33_StoreErrorRolledBackAndDlqd ==
    LET m == log["c1"][1]
    IN /\ pc["c1"] \in {"h_dlq", "h_mark_failed", "h_commit"}
          => tx["c1"] = EmptyTx
       /\ m.event_id \notin ledger
       /\ tickets[m.ticket_id].last_event_id # m.event_id
       /\ pc["c1"] # "terminated"
       /\ \A a \in acked :
             \E r \in dlqTopic :
                /\ r.partition = a.m[1] /\ r.offset = a.m[2]
                /\ r.error[1] = "unexpected: "

\* C37: when nothing has failed (no store, retriever, LLM or bus error, no
\* kill), a valid ticket message whose enrichment was committed ends on the
\* success arc: its event was published before its offset was committed, and
\* it never went through an except arm.  Stated for the messages that are
\* the only ones of the log with their event_id, so that a ledger entry of
\* the event is the commit made for the message.
C37_SuccessArcWhenNothingFails ==
    faults = 0
    => \A a \in acked :
          (/\ MsgAt(a.m).kind = "valid"
           /\ MsgAt(a.m).event_id \in ledger
           /\ \A c \in Consumers : \A i \in 1..Len(log[c]) :
                 log[c][i].event_id = MsgAt(a.m).event_id => <<c, i>> = a.m)
          => (a.via = "ok" /\ a.m \in published)

\* ---------------------------------------------------------------------------
\* upload_knowledge_base_file, api/app.py lines 466-557: the store section,
\* lines 521-549.  The handler is a coroutine whose store section holds no
\* await, so two uploads served by one API process run their sections one
\* after the other; API processes that share the store run theirs
\* concurrently, each in its own transaction (READ COMMITTED: a SELECT sees
\* committed rows only).  kb_documents has a primary key on id and no
\* constraint on sha256 (migrations/versions/0001_init.py lines 44-55).
\* ---------------------------------------------------------------------------

MaxUploads == 2

Uploads == 1..MaxUploads

ApiProcesses == {"api1", "api2"}

Sha256s == {"h1", "h2"}

NoResponse == [status |-> "none", doc_id |-> 0, chunks |-> 0]

\* An upload is inside lines 521-549 of its process.
InSection(u) == call.uploads[u].pc \in {"selected", "inserted"}

\* The event loop of the upload's process is free to run its section.
LoopFree(u) ==
    \A v \in Uploads \ {u} :
        call.uploads[v].process = call.uploads[u].process => ~InSection(v)

InitUpload ==
    /\ members = {}
    /\ faults = 0
    /\ norm = NormIdle
    /\ InitStore
    /\ \E docs \in {{}, {[id |-> 1, sha256 |-> "h1"]}} :
       \E ps \in [Uploads -> ApiProcesses], hs \in [Uploads -> Sha256s] :
          call = [fn |-> "upload",
                  kb_documents |-> docs,
                  kb_chunks |-> {d.id : d \in docs},
                  next_id |-> Cardinality(docs) + 1,
                  uploads |-> [u \in Uploads |->
                                  [process |-> ps[u], sha256 |-> hs[u],
                                   pc |-> "received", existing |-> 0,
                                   doc_id |-> 0, response |-> NoResponse]]]

\* Lines 522-525: SELECT id FROM kb_documents WHERE sha256=%s, fetchone();
\* 0 stands for no row.
SelectExisting(u) ==
    /\ call.fn = "upload"
    /\ call.uploads[u].pc = "received"
    /\ LoopFree(u)
    /\ LET rows == {d \in call.kb_documents : d.sha256 = call.uploads[u].sha256}
       IN \E id \in (IF rows = {} THEN {0} ELSE {d.id : d \in rows}) :
             call' = [call EXCEPT !.uploads[u].pc = "selected",
                                  !.uploads[u].existing = id]
    /\ UNCHANGED nonCallVars

\* Lines 526-532: the document is known.
ReturnExisting(u) ==
    /\ call.fn = "upload"
    /\ call.uploads[u].pc = "selected"
    /\ call.uploads[u].existing # 0
    /\ call' = [call EXCEPT !.uploads[u].pc = "done",
                   !.uploads[u].response =
                       [status |-> "already_ingested",
                        doc_id |-> call.uploads[u].existing, chunks |-> 0]]
    /\ UNCHANGED nonCallVars

\* Lines 534-544: INSERT INTO kb_documents ... RETURNING id, inside the
\* upload's transaction; the id comes from the table's sequence.
InsertDocument(u) ==
    /\ call.fn = "upload"
    /\ call.uploads[u].pc = "selected"
    /\ call.uploads[u].existing = 0
    /\ call' = [call EXCEPT !.uploads[u].pc = "inserted",
                   !.uploads[u].doc_id = call.next_id,
                   !.next_id = @ + 1]
    /\ UNCHANGED nonCallVars

\* Lines 546-557: the chunks are embedded and inserted, the transaction is
\* committed and the response is built.
CommitUpload(u) ==
    /\ call.fn = "upload"
    /\ call.uploads[u].pc = "inserted"
    /\ call' = [call EXCEPT !.uploads[u].pc = "done",
                   !.kb_documents = @ \cup {[id |-> call.uploads[u].doc_id,
                                             sha256 |-> call.uploads[u].sha256]},
                   !.kb_chunks = @ \cup {call.uploads[u].doc_id},
                   !.uploads[u].response =
                       [status |-> "ingested",
                        doc_id |-> call.uploads[u].doc_id, chunks |-> 1]]
    /\ UNCHANGED nonCallVars

\* Lines 546-548: embed_texts or insert_kb_chunks_with_embeddings raises;
\* the connection's context manager rolls the transaction back.
RollbackUpload(u) ==
    /\ call.fn = "upload"
    /\ call.uploads[u].pc = "inserted"
    /\ call' = [call EXCEPT !.uploads[u].pc = "failed"]
    /\ UNCHANGED nonCallVars

NextUpload ==
    \E u \in Uploads :
        \/ SelectExisting(u)
        \/ ReturnExisting(u)
        \/ InsertDocument(u)
        \/ CommitUpload(u)
        \/ RollbackUpload(u)

SpecUpload == InitUpload /\ [][NextUpload]_vars

\* C32: whatever the interleaving of uploads, kb_documents holds at most one
\* row per sha256, and an upload that answers 'ingested' has inserted the
\* only document of its sha256.
C32_OneDocumentPerSha256 ==
    call.fn = "upload"
    => /\ \A d1 \in call.kb_documents : \A d2 \in call.kb_documents :
             d1.sha256 = d2.sha256 => d1.id = d2.id
       /\ \A u \in Uploads :
             call.uploads[u].response.status = "ingested"
             => \A d \in call.kb_documents :
                   d.sha256 = call.uploads[u].sha256
                   => d.id = call.uploads[u].response.doc_id

\* The same, for uploads that one API process serves.
OneProcessOneDocumentPerSha256 ==
    (\A u \in Uploads : call.uploads[u].process = "api1")
    => C32_OneDocumentPerSha256

\* ---------------------------------------------------------------------------
\* The two writers of an enriched_tickets row: create_ticket of the API
\* (api/app.py lines 395-452) and the enrichment transaction of main
\* (enricher/app.py lines 309-367), on one ticket_id.  Each upsert is one
\* statement followed by a commit, so the upserts are atomic and only their
\* order varies.
\* ---------------------------------------------------------------------------

MaxRequests == 2

Requests == 1..MaxRequests

Subjects == {"s1", "s2"}

Bodies == {"b1", "b2"}

NoTicketRow ==
    [last_event_id |-> 0, subject |-> "none", body |-> "none",
     status |-> "none", summary |-> <<>>]

\* call_claude, lines 164-195: what the LLM is asked about, as the
\* enrichment computed from an event.
Enrichment(event) == <<"summary of", event.subject, event.body>>

\* api/app.py lines 424-436: the ticket event of a request; the fresh
\* event_id of line 396 is the request's number.
TicketEvent(r) ==
    [event_id |-> r, ticket_id |-> "t1",
     subject |-> call.requests[r].subject, body |-> call.requests[r].body]

\* api/app.py lines 400-421: 'pending' upsert of create_ticket.
ApiUpsert(row, event) ==
    [row EXCEPT !.last_event_id = event.event_id,
                !.subject = event.subject,
                !.body = event.body,
                !.status = "pending"]

\* enricher/app.py lines 334-364: 'enriched' upsert of main; on conflict
\* the SET list holds last_event_id, status and the enrichment columns.
EnricherUpsert(row, event, enrichment) ==
    IF row = NoTicketRow
    THEN [last_event_id |-> event.event_id, subject |-> event.subject,
          body |-> event.body, status |-> "enriched", summary |-> enrichment]
    ELSE [row EXCEPT !.last_event_id = event.event_id,
                     !.status = "enriched",
                     !.summary = enrichment]

InitRow ==
    /\ members = {}
    /\ faults = 0
    /\ norm = NormIdle
    /\ InitStore
    /\ \E ss \in [Requests -> Subjects], bs \in [Requests -> Bodies] :
          call = [fn |-> "ticket row",
                  requests |-> [r \in Requests |->
                                   [pc |-> "received", subject |-> ss[r],
                                    body |-> bs[r]]],
                  row |-> NoTicketRow,
                  topic |-> <<>>,
                  consumed |-> 0,
                  processed_events |-> {}]

\* api/app.py lines 395-423: the row is written and committed.
StoreTicket(r) ==
    /\ call.fn = "ticket row"
    /\ call.requests[r].pc = "received"
    /\ call' = [call EXCEPT !.requests[r].pc = "stored",
                   !.row = ApiUpsert(call.row, TicketEvent(r))]
    /\ UNCHANGED nonCallVars

\* api/app.py lines 424-452: the event is produced to the input topic.
PublishTicket(r) ==
    /\ call.fn = "ticket row"
    /\ call.requests[r].pc = "stored"
    /\ call' = [call EXCEPT !.requests[r].pc = "published",
                   !.topic = Append(@, TicketEvent(r))]
    /\ UNCHANGED nonCallVars

\* enricher/app.py lines 302-367: the next message of the topic is
\* enriched and its transaction committed.
EnrichTicket ==
    /\ call.fn = "ticket row"
    /\ call.consumed < Len(call.topic)
    /\ LET event == call.topic[call.consumed + 1]
       IN /\ event.event_id \notin call.processed_events
          /\ call' = [call EXCEPT !.consumed = @ + 1,
                         !.row = EnricherUpsert(call.row, event, Enrichment(event)),
                         !.processed_events = @ \cup {event.event_id}]
    /\ UNCHANGED nonCallVars

NextRow ==
    \/ \E r \in Requests : StoreTicket(r) \/ PublishTicket(r)
    \/ EnrichTicket

SpecRow == InitRow /\ [][NextRow]_vars

\* C39: whatever the order of the API's and the enricher's upserts on one
\* ticket_id, a row with status 'enriched' holds the subject and the body
\* of the event its last_event_id names and the enrichment computed from
\* that event.
C39_EnrichedRowOfOneEvent ==
    (call.fn = "ticket row" /\ call.row.status = "enriched")
    => LET event == TicketEvent(call.row.last_event_id)
       IN /\ call.row.subject = event.subject
          /\ call.row.body = event.body
          /\ call.row.summary = Enrichment(event)

====
